---- MODULE Spec2Model ----
(***************************************************************************)
(* Model of the diet / fitness backend: the stored tables (users,          *)
(* ingredients, recipes, recipe_ingredients, pantry, diet_plans,           *)
(* friendships, messages), the request handlers of main.py, the health     *)
(* calculations of models.User and the meal-plan pipeline of               *)
(* engine.DietEngine.                                                      *)
(*                                                                         *)
(* Numbers.  The program computes on floats; the model computes on exact   *)
(* fixed-point integers:                                                   *)
(*   height_cm, weight_kg, waist_cm, neck_cm, hip_cm : hundredths          *)
(*   kcal, bmr, tdee, target_daily_kcal              : hundredths of kcal  *)
(*   meal_targets (unrounded slot targets)           : 1/10000 kcal        *)
(*   protein_g, carbs_g, fat_g of a recipe           : thousandths of g    *)
(*   pantry_score, rounded target_kcal, total_macros : hundredths          *)
(* round(x, 2) is RoundHalfEven(numerator, denominator) on the exact       *)
(* value.  None is the empty tuple, a present optional value x is <<x>>.   *)
(***************************************************************************)
EXTENDS Integers, Sequences, FiniteSets, Bags, TLC

VARIABLES
    users,               \* table users: set of rows
    ingredients,         \* table ingredients: set of rows
    recipes,             \* table recipes: set of rows
    recipe_ingredients,  \* table recipe_ingredients: set of rows
    pantry,              \* table pantry: bag of rows
    diet_plans,          \* table diet_plans: set of rows
    friendships,         \* table friendships: set of rows
    messages,            \* table messages: set of rows
    inflight,            \* the requests that are being handled step by step
    tokens,              \* the access tokens issued by login and not yet expired
    response             \* the response to the request handled last

vars == <<users, ingredients, recipes, recipe_ingredients, pantry, diet_plans,
         friendships, messages, inflight, tokens, response>>

db == <<users, ingredients, recipes, recipe_ingredients, pantry, diet_plans,
       friendships, messages>>

----------------------------------------------------------------------------
(* Bounds of the model *)

\* the largest quantity a pantry row is incremented to
MaxQuantity == 3

\* the recipes create_recipe stores
MaxRecipes == 3

\* the messages send_message stores
MaxMessages == 2

----------------------------------------------------------------------------
(* Generic helpers *)

None == << >>

Some(x) == <<x>>

Max2(a, b) == IF a >= b THEN a ELSE b

\* round(n/d) to the nearest integer, ties to even (Python's round)
RoundHalfEven(n, d) ==
    LET q == n \div d
        r == n % d
    IN  IF 2 * r < d THEN q
        ELSE IF 2 * r > d THEN q + 1
        ELSE IF q % 2 = 0 THEN q ELSE q + 1

\* str.lower() on the gender strings the model uses
Lower(s) ==
    CASE s = "Female" -> "female"
      [] s = "FEMALE" -> "female"
      [] s = "Male"   -> "male"
      [] s = "MALE"   -> "male"
      [] OTHER        -> s

\* the primary key a new row gets: SQLite's rowid, highest rowid + 1
NextId(rows) ==
    IF rows = {} THEN 1
    ELSE (CHOOSE m \in {r.id : r \in rows} : \A r \in rows : r.id <= m) + 1

\* Query.first(): the matching row with the lowest rowid, None when no row matches
First(rows) ==
    IF rows = {} THEN None
    ELSE Some(CHOOSE r \in rows : \A q \in rows : r.id <= q.id)

RECURSIVE AllRows(_)
\* Query.all(): the matching rows in rowid order
AllRows(rows) ==
    IF rows = {} THEN << >>
    ELSE LET r == CHOOSE x \in rows : \A q \in rows : x.id <= q.id
         IN  <<r>> \o AllRows(rows \ {r})

----------------------------------------------------------------------------
(* schemas.py: request validation *)

ActivityLevels == {"sedentary", "light", "moderate", "very", "athlete"}

MealTypes == <<"breakfast", "lunch", "dinner", "snack">>

\* Field(pattern="^(male|female)$")
GenderPattern(g) == g \in {"male", "female"}

\* UserCreate: every measurement gt 0, gender matching the pattern, hip_cm optional
UserCreateValid(u) ==
    /\ u.height_cm > 0 /\ u.weight_kg > 0
    /\ GenderPattern(u.gender)
    /\ u.age > 0 /\ u.age < 150
    /\ u.activity_level \in ActivityLevels
    /\ u.waist_cm > 0 /\ u.neck_cm > 0
    /\ (u.hip_cm # None => u.hip_cm[1] > 0)

\* UserUpdate: every field optional; a field that is set obeys its constraint,
\* and an optional field may be set to None
UserUpdateValid(d) ==
    /\ ("gender" \in DOMAIN d /\ d.gender # None => GenderPattern(d.gender[1]))
    /\ ("hip_cm" \in DOMAIN d /\ d.hip_cm # None => d.hip_cm[1] > 0)
    /\ ("weight_kg" \in DOMAIN d /\ d.weight_kg # None => d.weight_kg[1] > 0)

----------------------------------------------------------------------------
(* auth.py: the authentication dependency *)

\* get_current_user without the is_active test
get_current_user_any_status(sub) ==
    LET user == First({u \in users : u.email = sub})
    IN  IF user = None THEN [ok |-> FALSE, status |-> 401]
        ELSE [ok |-> TRUE, user |-> user[1]]

\* get_current_user on a token whose subject is `sub`: the user row, or the
\* status of the HTTPException raised (401 unknown user, 403 deactivated)
get_current_user(sub) ==
    LET user == First({u \in users : u.email = sub})
    IN  IF user = None THEN [ok |-> FALSE, status |-> 401]
        ELSE IF ~user[1].is_active THEN [ok |-> FALSE, status |-> 403]
        ELSE [ok |-> TRUE, user |-> user[1]]

\* get_current_admin on the same token: get_current_user, then 403 unless the
\* user is a superuser
get_current_admin(sub) ==
    LET auth == get_current_user(sub)
    IN  IF ~auth.ok THEN auth
        ELSE IF ~auth.user.is_superuser THEN [ok |-> FALSE, status |-> 403]
        ELSE auth

\* authenticate_user: the row of the e-mail when the password is verified.
\* `verified` stands for "the row has a hashed password and verify_password
\* accepts the password of the form"; is_active is not looked at.
authenticate_user(email, verified) ==
    LET user == First({u \in users : u.email = email})
    IN  IF user = None THEN None
        ELSE IF ~verified THEN None
        ELSE user

\* create_access_token(data={"sub": email}).  A token of the model stands for
\* a token that has not expired; active_at_issue is not in the token: it
\* records whether the account was active when the token was issued.
create_access_token(user) ==
    [sub |-> user.email, active_at_issue |-> user.is_active]

\* POST /auth/login
login(email, verified) ==
    LET user == authenticate_user(email, verified)
    IN  /\ IF user = None
           THEN /\ response' = [op |-> "login", status |-> 401]
                /\ UNCHANGED tokens
           ELSE /\ tokens' = tokens \cup {create_access_token(user[1])}
                /\ response' = [op |-> "login", status |-> 200,
                                access_token |-> create_access_token(user[1])]
        /\ UNCHANGED <<db, inflight>>

\* PATCH /admin/users/{user_id}/toggle-admin
toggle_user_admin(sub, user_id) ==
    LET admin == get_current_admin(sub)
        user == First({u \in users : u.id = user_id})
    IN  /\ IF ~admin.ok
           THEN /\ response' = [op |-> "toggle_user_admin", status |-> admin.status]
                /\ UNCHANGED users
           ELSE IF user = None
           THEN /\ response' = [op |-> "toggle_user_admin", status |-> 404]
                /\ UNCHANGED users
           ELSE IF user[1].id = admin.user.id
           THEN /\ response' = [op |-> "toggle_user_admin", status |-> 400]
                /\ UNCHANGED users
           ELSE /\ users' = (users \ {user[1]}) \cup
                              {[user[1] EXCEPT !.is_superuser = ~@]}
                /\ response' = [op |-> "toggle_user_admin", status |-> 200,
                                is_superuser |-> ~user[1].is_superuser]
        /\ UNCHANGED <<ingredients, recipes, recipe_ingredients, pantry, diet_plans,
                       friendships, messages, inflight, tokens>>

\* PATCH /admin/users/{user_id}/toggle-active
toggle_user_active(sub, user_id) ==
    LET admin == get_current_admin(sub)
        user == First({u \in users : u.id = user_id})
    IN  /\ IF ~admin.ok
           THEN /\ response' = [op |-> "toggle_user_active", status |-> admin.status]
                /\ UNCHANGED users
           ELSE IF user = None
           THEN /\ response' = [op |-> "toggle_user_active", status |-> 404]
                /\ UNCHANGED users
           ELSE IF user[1].id = admin.user.id
           THEN /\ response' = [op |-> "toggle_user_active", status |-> 400]
                /\ UNCHANGED users
           ELSE /\ users' = (users \ {user[1]}) \cup
                              {[user[1] EXCEPT !.is_active = ~@]}
                /\ response' = [op |-> "toggle_user_active", status |-> 200,
                                is_active |-> ~user[1].is_active]
        /\ UNCHANGED <<ingredients, recipes, recipe_ingredients, pantry, diet_plans,
                       friendships, messages, inflight, tokens>>

----------------------------------------------------------------------------
(* models.py: the users table; main.py: the handlers that write it *)

\* the modelled column of users declared nullable=True; every other one is
\* nullable=False
NullableUserColumns == {"hip_cm"}

\* the row a User(...) built from a UserCreate body becomes on insert
NewUser(input) ==
    [id |-> NextId(users), email |-> input.email, gender |-> input.gender,
     height_cm |-> input.height_cm, weight_kg |-> input.weight_kg,
     age |-> input.age, activity_level |-> input.activity_level,
     waist_cm |-> input.waist_cm, neck_cm |-> input.neck_cm,
     hip_cm |-> input.hip_cm, is_active |-> TRUE, is_superuser |-> FALSE]

\* the hip check of signup and create_user
HipMissingForFemale(input) == Lower(input.gender) = "female" /\ input.hip_cm = None

\* the body shared by POST /auth/signup and POST /users/
CreateUserBody(op, input) ==
    /\ IF ~UserCreateValid(input)
       THEN /\ response' = [op |-> op, status |-> 422]
            /\ UNCHANGED users
       ELSE IF \E u \in users : u.email = input.email
       THEN /\ response' = [op |-> op, status |-> 400]
            /\ UNCHANGED users
       ELSE IF HipMissingForFemale(input)
       THEN /\ response' = [op |-> op, status |-> 400]
            /\ UNCHANGED users
       ELSE /\ users' = users \cup {NewUser(input)}
            /\ response' = [op |-> op, status |-> 201, id |-> NextId(users)]
    /\ UNCHANGED <<ingredients, recipes, recipe_ingredients, pantry, diet_plans,
                   friendships, messages, inflight, tokens>>

signup(input) == CreateUserBody("signup", input)

create_user(input) == CreateUserBody("create_user", input)

\* setattr(user, field, value) for every field of update_data
SetAttrs(user, update_data) ==
    [f \in DOMAIN user |->
        IF f \in DOMAIN update_data
        THEN (IF f = "hip_cm" THEN update_data[f] ELSE update_data[f][1])
        ELSE user[f]]

\* db.commit() of a changed user row succeeds: no NOT NULL column was set to
\* None and the email stays unique
UserCommitOk(user, update_data) ==
    /\ \A f \in DOMAIN update_data :
          f \notin NullableUserColumns => update_data[f] # None
    /\ "email" \in DOMAIN update_data =>
          ~\E u \in users : u.id # user.id /\ u.email = update_data.email[1]

\* update_data without the key "email"
WithoutEmail(update_data) ==
    [f \in DOMAIN update_data \ {"email"} |-> update_data[f]]

\* PATCH /users/me
update_current_user_profile(sub, user_update) ==
    LET auth == get_current_user(sub)
        update_data == WithoutEmail(user_update)
    IN  /\ IF ~auth.ok
           THEN /\ response' = [op |-> "update_current_user_profile", status |-> auth.status]
                /\ UNCHANGED users
           ELSE IF ~UserUpdateValid(user_update)
           THEN /\ response' = [op |-> "update_current_user_profile", status |-> 422]
                /\ UNCHANGED users
           ELSE IF ~UserCommitOk(auth.user, update_data)
           THEN /\ response' = [op |-> "update_current_user_profile", status |-> 500]
                /\ UNCHANGED users
           ELSE /\ users' = (users \ {auth.user}) \cup {SetAttrs(auth.user, update_data)}
                /\ response' = [op |-> "update_current_user_profile", status |-> 200, id |-> auth.user.id]
        /\ UNCHANGED <<ingredients, recipes, recipe_ingredients, pantry, diet_plans,
                       friendships, messages, inflight, tokens>>

\* PATCH /users/{user_id}
update_user(sub, user_id, user_update) ==
    LET auth == get_current_user(sub)
        user == First({u \in users : u.id = user_id})
    IN  /\ IF ~auth.ok
           THEN /\ response' = [op |-> "update_user", status |-> auth.status]
                /\ UNCHANGED users
           ELSE IF ~UserUpdateValid(user_update)
           THEN /\ response' = [op |-> "update_user", status |-> 422]
                /\ UNCHANGED users
           ELSE IF auth.user.id # user_id /\ ~auth.user.is_superuser
           THEN /\ response' = [op |-> "update_user", status |-> 403]
                /\ UNCHANGED users
           ELSE IF user = None
           THEN /\ response' = [op |-> "update_user", status |-> 404]
                /\ UNCHANGED users
           ELSE IF ~UserCommitOk(user[1], user_update)
           THEN /\ response' = [op |-> "update_user", status |-> 500]
                /\ UNCHANGED users
           ELSE /\ users' = (users \ {user[1]}) \cup {SetAttrs(user[1], user_update)}
                /\ response' = [op |-> "update_user", status |-> 200, id |-> user_id]
        /\ UNCHANGED <<ingredients, recipes, recipe_ingredients, pantry, diet_plans,
                       friendships, messages, inflight, tokens>>

\* the rows db.delete(user) reaches through the relationships of User:
\* pantry_items and diet_plans have no delete cascade, so their rows would get
\* user_id = NULL, which the columns (nullable=False) refuse
HasUncascadedRows(user_id) ==
    \/ \E row \in BagToSet(pantry) : row.user_id = user_id
    \/ \E plan \in diet_plans : plan.user_id = user_id

\* sent_messages and received_messages cascade "all, delete-orphan"
MessagesWithout(user_id) ==
    {m \in messages : m.sender_id # user_id /\ m.receiver_id # user_id}

\* DELETE /users/{user_id} without the ownership test
delete_user_unguarded(sub, user_id) ==
    LET auth == get_current_user(sub)
        user == First({u \in users : u.id = user_id})
    IN  /\ IF ~auth.ok
           THEN /\ response' = [op |-> "delete_user", status |-> auth.status]
                /\ UNCHANGED <<users, messages>>
           ELSE IF user = None
           THEN /\ response' = [op |-> "delete_user", status |-> 404]
                /\ UNCHANGED <<users, messages>>
           ELSE IF HasUncascadedRows(user_id)
           THEN /\ response' = [op |-> "delete_user", status |-> 500]
                /\ UNCHANGED <<users, messages>>
           ELSE /\ users' = users \ {user[1]}
                /\ messages' = MessagesWithout(user_id)
                /\ response' = [op |-> "delete_user", status |-> 204]
        /\ UNCHANGED <<ingredients, recipes, recipe_ingredients, pantry, diet_plans,
                       friendships, inflight, tokens>>

\* DELETE /users/{user_id}
delete_user(sub, user_id) ==
    LET auth == get_current_user(sub)
        user == First({u \in users : u.id = user_id})
    IN  /\ IF ~auth.ok
           THEN /\ response' = [op |-> "delete_user", status |-> auth.status]
                /\ UNCHANGED <<users, messages>>
           ELSE IF auth.user.id # user_id /\ ~auth.user.is_superuser
           THEN /\ response' = [op |-> "delete_user", status |-> 403]
                /\ UNCHANGED <<users, messages>>
           ELSE IF user = None
           THEN /\ response' = [op |-> "delete_user", status |-> 404]
                /\ UNCHANGED <<users, messages>>
           ELSE IF HasUncascadedRows(user_id)
           THEN /\ response' = [op |-> "delete_user", status |-> 500]
                /\ UNCHANGED <<users, messages>>
           ELSE /\ users' = users \ {user[1]}
                /\ messages' = MessagesWithout(user_id)
                /\ response' = [op |-> "delete_user", status |-> 204]
        /\ UNCHANGED <<ingredients, recipes, recipe_ingredients, pantry, diet_plans,
                       friendships, inflight, tokens>>

----------------------------------------------------------------------------
(* main.py: ingredients and pantry handlers *)

\* POST /ingredients/
create_ingredient(sub, name) ==
    LET auth == get_current_user(sub)
    IN  /\ IF ~auth.ok
           THEN /\ response' = [op |-> "create_ingredient", status |-> auth.status]
                /\ UNCHANGED ingredients
           ELSE IF \E i \in ingredients : i.name = name
           THEN /\ response' = [op |-> "create_ingredient", status |-> 400]
                /\ UNCHANGED ingredients
           ELSE /\ ingredients' = ingredients \cup
                                    {[id |-> NextId(ingredients), name |-> name]}
                /\ response' = [op |-> "create_ingredient", status |-> 201, id |-> NextId(ingredients)]
        /\ UNCHANGED <<users, recipes, recipe_ingredients, pantry, diet_plans,
                       friendships, messages, inflight, tokens>>

\* RecipeCreate: meal_type of the enumeration, macros >= 0, every listed
\* quantity > 0
RecipeCreateValid(recipe) ==
    /\ \E k \in 1..Len(MealTypes) : MealTypes[k] = recipe.meal_type
    /\ recipe.kcal >= 0 /\ recipe.protein_g >= 0
    /\ recipe.carbs_g >= 0 /\ recipe.fat_g >= 0
    /\ \A j \in 1..Len(recipe.ingredients) : recipe.ingredients[j].quantity > 0

\* the Recipe row create_recipe adds and commits first
NewRecipe(recipe) ==
    [id |-> NextId(recipes), meal_type |-> recipe.meal_type, kcal |-> recipe.kcal,
     protein_g |-> recipe.protein_g, carbs_g |-> recipe.carbs_g,
     fat_g |-> recipe.fat_g]

\* every listed ingredient id is the id of a stored ingredient
IngredientsKnown(recipe) ==
    \A j \in 1..Len(recipe.ingredients) :
        \E i \in ingredients : i.id = recipe.ingredients[j].ingredient_id

\* the RecipeIngredient rows of the loop, committed together after it
NewRecipeIngredients(recipe) ==
    {[id |-> NextId(recipe_ingredients) + j - 1, recipe_id |-> NextId(recipes),
      ingredient_id |-> recipe.ingredients[j].ingredient_id] :
        j \in 1..Len(recipe.ingredients)}

\* POST /recipes/: the recipe row is committed before the ingredient ids are
\* looked up; on an unknown id the request ends as 400 and the session is
\* closed with the links added so far uncommitted
create_recipe(sub, recipe) ==
    LET auth == get_current_user(sub)
    IN  /\ Cardinality(recipes) < MaxRecipes
        /\ IF ~auth.ok
           THEN /\ response' = [op |-> "create_recipe", status |-> auth.status]
                /\ UNCHANGED <<recipes, recipe_ingredients>>
           ELSE IF ~RecipeCreateValid(recipe)
           THEN /\ response' = [op |-> "create_recipe", status |-> 422]
                /\ UNCHANGED <<recipes, recipe_ingredients>>
           ELSE /\ recipes' = recipes \cup {NewRecipe(recipe)}
                /\ IF ~IngredientsKnown(recipe)
                   THEN /\ response' = [op |-> "create_recipe", status |-> 400]
                        /\ UNCHANGED recipe_ingredients
                   ELSE /\ recipe_ingredients' =
                              recipe_ingredients \cup NewRecipeIngredients(recipe)
                        /\ response' = [op |-> "create_recipe", status |-> 201,
                                        id |-> NextId(recipes)]
        /\ UNCHANGED <<users, ingredients, pantry, diet_plans,
                       friendships, messages, inflight, tokens>>

\* The pantry table is a bag of rows [user_id, ingredient_id, quantity]: a row's
\* own primary key is read by no handler and is left out, and two rows with the
\* same contents are two copies in the bag.

\* the pantry rows of one (user, ingredient) pair
PantryRows(user_id, ingredient_id) ==
    {p \in BagToSet(pantry) : p.user_id = user_id /\ p.ingredient_id = ingredient_id}

\* the pantry with one copy of row `old` replaced by row `new`
ReplaceRow(old, new) == (pantry (-) SetToBag({old})) (+) SetToBag({new})

\* POST /pantry/{user_id} without the lookup of the existing row: every
\* accepted request inserts a row
add_to_pantry_always_insert(sub, user_id, item) ==
    LET auth == get_current_user(sub)
        user == First({u \in users : u.id = user_id})
        ingredient == First({i \in ingredients : i.id = item.ingredient_id})
        accepted == /\ auth.ok
                    /\ item.quantity > 0
                    /\ (auth.user.id = user_id \/ auth.user.is_superuser)
                    /\ user # None /\ ingredient # None
    IN  /\ IF accepted
           THEN /\ pantry' = pantry (+) SetToBag(
                       {[user_id |-> user_id, ingredient_id |-> item.ingredient_id,
                         quantity |-> item.quantity]})
                /\ response' = [op |-> "add_to_pantry", status |-> 201,
                                user_id |-> user_id,
                                ingredient_id |-> item.ingredient_id,
                                quantity |-> item.quantity]
           ELSE /\ response' = [op |-> "add_to_pantry", status |-> 400]
                /\ UNCHANGED pantry
        /\ UNCHANGED <<users, ingredients, recipes, recipe_ingredients, diet_plans,
                       friendships, messages, inflight, tokens>>

\* POST /pantry/{user_id}
add_to_pantry(sub, user_id, item) ==
    LET auth == get_current_user(sub)
        user == First({u \in users : u.id = user_id})
        ingredient == First({i \in ingredients : i.id = item.ingredient_id})
        matching == PantryRows(user_id, item.ingredient_id)
    IN  /\ IF ~auth.ok
           THEN /\ response' = [op |-> "add_to_pantry", status |-> auth.status]
                /\ UNCHANGED pantry
           ELSE IF ~(item.quantity > 0)
           THEN /\ response' = [op |-> "add_to_pantry", status |-> 422]
                /\ UNCHANGED pantry
           ELSE IF auth.user.id # user_id /\ ~auth.user.is_superuser
           THEN /\ response' = [op |-> "add_to_pantry", status |-> 403]
                /\ UNCHANGED pantry
           ELSE IF user = None \/ ingredient = None
           THEN /\ response' = [op |-> "add_to_pantry", status |-> 404]
                /\ UNCHANGED pantry
           ELSE IF matching # {}
           THEN \E existing \in matching :
                   /\ existing.quantity + item.quantity <= MaxQuantity
                   /\ pantry' = ReplaceRow(existing,
                          [existing EXCEPT !.quantity = @ + item.quantity])
                   /\ response' = [op |-> "add_to_pantry", status |-> 201,
                                   user_id |-> user_id,
                                   ingredient_id |-> item.ingredient_id,
                                   quantity |-> existing.quantity + item.quantity]
           ELSE /\ pantry' = pantry (+) SetToBag(
                       {[user_id |-> user_id, ingredient_id |-> item.ingredient_id,
                         quantity |-> item.quantity]})
                /\ response' = [op |-> "add_to_pantry", status |-> 201,
                                user_id |-> user_id,
                                ingredient_id |-> item.ingredient_id,
                                quantity |-> item.quantity]
        /\ UNCHANGED <<users, ingredients, recipes, recipe_ingredients, diet_plans,
                       friendships, messages, inflight, tokens>>

\* PATCH /pantry/{user_id}/{ingredient_id}
update_pantry_item(sub, user_id, ingredient_id, quantity) ==
    LET auth == get_current_user(sub)
        matching == PantryRows(user_id, ingredient_id)
    IN  /\ IF ~auth.ok
           THEN /\ response' = [op |-> "update_pantry_item", status |-> auth.status]
                /\ UNCHANGED pantry
           ELSE IF ~(quantity > 0)
           THEN /\ response' = [op |-> "update_pantry_item", status |-> 422]
                /\ UNCHANGED pantry
           ELSE IF auth.user.id # user_id /\ ~auth.user.is_superuser
           THEN /\ response' = [op |-> "update_pantry_item", status |-> 403]
                /\ UNCHANGED pantry
           ELSE IF matching = {}
           THEN /\ response' = [op |-> "update_pantry_item", status |-> 404]
                /\ UNCHANGED pantry
           ELSE \E pantry_item \in matching :
                   /\ pantry' = ReplaceRow(pantry_item,
                          [pantry_item EXCEPT !.quantity = quantity])
                   /\ response' = [op |-> "update_pantry_item", status |-> 200,
                                   user_id |-> user_id, ingredient_id |-> ingredient_id,
                                   quantity |-> quantity]
        /\ UNCHANGED <<users, ingredients, recipes, recipe_ingredients, diet_plans,
                       friendships, messages, inflight, tokens>>

\* DELETE /pantry/{user_id}/{ingredient_id}
remove_from_pantry(sub, user_id, ingredient_id) ==
    LET auth == get_current_user(sub)
        matching == PantryRows(user_id, ingredient_id)
    IN  /\ IF ~auth.ok
           THEN /\ response' = [op |-> "remove_from_pantry", status |-> auth.status]
                /\ UNCHANGED pantry
           ELSE IF auth.user.id # user_id /\ ~auth.user.is_superuser
           THEN /\ response' = [op |-> "remove_from_pantry", status |-> 403]
                /\ UNCHANGED pantry
           ELSE IF matching = {}
           THEN /\ response' = [op |-> "remove_from_pantry", status |-> 404]
                /\ UNCHANGED pantry
           ELSE \E pantry_item \in matching :
                   /\ pantry' = pantry (-) SetToBag({pantry_item})
                   /\ response' = [op |-> "remove_from_pantry", status |-> 204]
        /\ UNCHANGED <<users, ingredients, recipes, recipe_ingredients, diet_plans,
                       friendships, messages, inflight, tokens>>

----------------------------------------------------------------------------
(* models.py: the health calculations of User *)

\* A quotient n / d kept as [q, r] with n = q * d + r and 0 <= r < d, so that n
\* can be multiplied beyond the range of the integers of the model checker
Times2(x, d) == [q |-> 2 * x.q + (2 * x.r) \div d, r |-> (2 * x.r) % d]

Times5(x, d) ==
    LET x4 == Times2(Times2(x, d), d)
    IN  [q |-> x4.q + x.q + (x4.r + x.r) \div d, r |-> (x4.r + x.r) % d]

RECURSIVE TimesPow10(_, _, _)
TimesPow10(x, d, n) ==
    IF n = 0 THEN x ELSE TimesPow10(Times5(Times2(x, d), d), d, n - 1)

\* round(n * 10^k / d) to the nearest integer, ties to even
ScaledQuotient(n, k, d) ==
    LET x == TimesPow10([q |-> n \div d, r |-> n % d], d, k)
    IN  IF 2 * x.r < d THEN x.q
        ELSE IF 2 * x.r > d THEN x.q + 1
        ELSE IF x.q % 2 = 0 THEN x.q ELSE x.q + 1

\* calculate_bmi that cuts the decimals after the second instead of rounding
calculate_bmi_truncated(user) ==
    TimesPow10([q |-> user.weight_kg \div (user.height_cm * user.height_cm),
                r |-> user.weight_kg % (user.height_cm * user.height_cm)],
               user.height_cm * user.height_cm, 8).q

\* User.calculate_bmi, in hundredths: round(weight_kg / (height_cm / 100) ** 2, 2)
calculate_bmi(user) ==
    ScaledQuotient(user.weight_kg, 8, user.height_cm * user.height_cm)

\* calculate_body_fat with a missing hip measurement counted as 0
calculate_body_fat_hip_default(user) ==
    LET hip == IF user.hip_cm = None THEN 0 ELSE user.hip_cm[1]
        argument == IF Lower(user.gender) = "male"
                    THEN user.waist_cm - user.neck_cm
                    ELSE user.waist_cm + hip - user.neck_cm
    IN  IF argument <= 0
        THEN [raised |-> "ValueError", message |-> "math domain error",
              origin |-> "math.log10"]
        ELSE [raised |-> "",
              value |-> [formula |-> IF Lower(user.gender) = "male"
                                     THEN "male" ELSE "female",
                         argument |-> argument, height_cm |-> user.height_cm]]

\* math.log10(x) raises ValueError("math domain error") unless x > 0
Log10Defined(x) == x > 0

\* User.calculate_body_fat.  The result is the error raised, or the value; the
\* value round(495 / (a - b * log10(argument) + c * log10(height_cm)) - 450, 2)
\* is kept as the formula (the male or the female coefficients a, b, c) and the
\* two numbers it is applied to.
calculate_body_fat(user) ==
    IF Lower(user.gender) = "male"
    THEN IF ~Log10Defined(user.waist_cm - user.neck_cm)
         THEN [raised |-> "ValueError", message |-> "math domain error",
               origin |-> "math.log10"]
         ELSE [raised |-> "",
               value |-> [formula |-> "male",
                          argument |-> user.waist_cm - user.neck_cm,
                          height_cm |-> user.height_cm]]
    ELSE IF user.hip_cm = None
         THEN [raised |-> "ValueError",
               message |-> "Hip measurement is required for female body fat calculation",
               origin |-> "calculate_body_fat"]
         ELSE IF ~Log10Defined(user.waist_cm + user.hip_cm[1] - user.neck_cm)
         THEN [raised |-> "ValueError", message |-> "math domain error",
               origin |-> "math.log10"]
         ELSE [raised |-> "",
               value |-> [formula |-> "female",
                          argument |-> user.waist_cm + user.hip_cm[1] - user.neck_cm,
                          height_cm |-> user.height_cm]]

\* the multipliers of calculate_tdee with 1.55 for a level that is not listed
ActivityMultiplier_unknown_moderate(activity_level) ==
    CASE activity_level = "sedentary" -> 1200
      [] activity_level = "light"     -> 1375
      [] activity_level = "moderate"  -> 1550
      [] activity_level = "very"      -> 1725
      [] activity_level = "athlete"   -> 1900
      [] OTHER                        -> 1550

\* the multipliers of calculate_tdee, in thousandths
ActivityMultiplier(activity_level) ==
    CASE activity_level = "sedentary" -> 1200
      [] activity_level = "light"     -> 1375
      [] activity_level = "moderate"  -> 1550
      [] activity_level = "very"      -> 1725
      [] activity_level = "athlete"   -> 1900
      [] OTHER                        -> 1200

\* calculate_bmr that compares the gender without lower()
calculate_bmr_case_sensitive(user) ==
    LET s == IF user.gender = "male" THEN 5 ELSE -161
    IN  RoundHalfEven(1000 * user.weight_kg + 625 * user.height_cm
                        - 50000 * user.age + 10000 * s, 100)

\* User.calculate_bmr, in hundredths of kcal:
\* round(10 * weight_kg + 6.25 * height_cm - 5 * age + s, 2)
calculate_bmr(user) ==
    LET s == IF Lower(user.gender) = "male" THEN 5 ELSE -161
    IN  RoundHalfEven(1000 * user.weight_kg + 625 * user.height_cm
                        - 50000 * user.age + 10000 * s, 100)

\* User.calculate_tdee, in hundredths of kcal: round(bmr * multiplier, 2)
calculate_tdee(user) ==
    RoundHalfEven(calculate_bmr(user) * ActivityMultiplier(user.activity_level), 1000)

\* get_health_metrics that leaves body_fat_percent out when its calculation fails
get_health_metrics_partial(user) ==
    [raised |-> "",
     metrics |-> [bmi |-> calculate_bmi(user),
                  body_fat_percent |->
                      IF calculate_body_fat(user).raised = ""
                      THEN calculate_body_fat(user).value ELSE None,
                  bmr |-> calculate_bmr(user),
                  tdee |-> calculate_tdee(user)]]

\* User.get_health_metrics: the four metrics, or the error of calculate_body_fat
get_health_metrics(user) ==
    LET body_fat == calculate_body_fat(user)
    IN  IF body_fat.raised # ""
        THEN body_fat
        ELSE [raised |-> "",
              metrics |-> [bmi |-> calculate_bmi(user),
                           body_fat_percent |-> body_fat.value,
                           bmr |-> calculate_bmr(user),
                           tdee |-> calculate_tdee(user)]]

----------------------------------------------------------------------------
(* engine.py: DietEngine *)

\* the shares of MEAL_DISTRIBUTION, in percent
BreakfastShare == 25
LunchShare == 35
DinnerShare == 30
SnackShare == 10

MEAL_DISTRIBUTION ==
    [breakfast |-> BreakfastShare, lunch |-> LunchShare,
     dinner |-> DinnerShare, snack |-> SnackShare]

\* the minimum safe intakes of calculate_target_calories, in kcal
MinCaloriesFemale == 1200
MinCaloriesOther == 1500

\* the default tolerance of filter_recipes_by_calories, in percent
DefaultTolerance == 10

\* the number of recommendations generate_meal_plan keeps per slot
TopN == 5

\* calculate_target_calories without the minimum safe intake
calculate_target_calories_no_floor(user, deficit) ==
    calculate_tdee(user) + 100 * deficit

\* DietEngine.calculate_target_calories, in hundredths of kcal
calculate_target_calories(user, deficit) ==
    LET tdee == calculate_tdee(user)
        target == tdee + 100 * deficit
        min_calories == IF Lower(user.gender) = "female"
                        THEN MinCaloriesFemale ELSE MinCaloriesOther
    IN  Max2(target, 100 * min_calories)

\* get_meal_calorie_targets with four equal shares
get_meal_calorie_targets_even(total_calories) ==
    [meal_type \in DOMAIN MEAL_DISTRIBUTION |-> total_calories * 25]

\* DietEngine.get_meal_calorie_targets: total_calories * percentage for every
\* meal type; total_calories in 1/100 kcal, the targets in 1/10000 kcal
get_meal_calorie_targets(total_calories) ==
    [meal_type \in DOMAIN MEAL_DISTRIBUTION |->
        total_calories * MEAL_DISTRIBUTION[meal_type]]

\* filter_recipes_by_calories without the comparison of the meal type
filter_recipes_by_calories_any_type(meal_type, target_kcal, tolerance) ==
    AllRows({r \in recipes : /\ r.kcal * 10000 >= target_kcal * (100 - tolerance)
                             /\ r.kcal * 10000 <= target_kcal * (100 + tolerance)})

\* filter_recipes_by_calories with the bounds of the band left out
filter_recipes_by_calories_exclusive(meal_type, target_kcal, tolerance) ==
    AllRows({r \in recipes : /\ r.meal_type = meal_type
                             /\ r.kcal * 10000 > target_kcal * (100 - tolerance)
                             /\ r.kcal * 10000 < target_kcal * (100 + tolerance)})

\* DietEngine.filter_recipes_by_calories: target_kcal in 1/10000 kcal, tolerance
\* in percent, Recipe.kcal in 1/100 kcal; both sides compared in 1/1000000 kcal
filter_recipes_by_calories(meal_type, target_kcal, tolerance) ==
    LET min_kcal == target_kcal * (100 - tolerance)
        max_kcal == target_kcal * (100 + tolerance)
    IN  AllRows({r \in recipes : /\ r.meal_type = meal_type
                                 /\ r.kcal * 10000 >= min_kcal
                                 /\ r.kcal * 10000 <= max_kcal})

\* calculate_pantry_score without the case of a recipe that has no ingredients
calculate_pantry_score_empty_zero(recipe, user_id) ==
    LET entries == {ri \in recipe_ingredients : ri.recipe_id = recipe.id}
        owned == {ri \in entries :
                     \E item \in BagToSet(pantry) :
                         item.user_id = user_id /\ item.ingredient_id = ri.ingredient_id}
    IN  IF entries = {} THEN 0
        ELSE RoundHalfEven(Cardinality(owned) * 100 * 100, Cardinality(entries))

\* calculate_pantry_score that reads the pantry rows of every user
calculate_pantry_score_any_user(recipe, user_id) ==
    LET recipe_ingredients_ == {ri \in recipe_ingredients : ri.recipe_id = recipe.id}
        pantry_ingredient_ids == {item.ingredient_id : item \in BagToSet(pantry)}
        owned_ingredients ==
            Cardinality({ri \in recipe_ingredients_ :
                            ri.ingredient_id \in pantry_ingredient_ids})
    IN  IF recipe_ingredients_ = {} THEN 100 * 100
        ELSE RoundHalfEven(owned_ingredients * 100 * 100,
                           Cardinality(recipe_ingredients_))

\* DietEngine.calculate_pantry_score, in hundredths of a percent
calculate_pantry_score(recipe, user_id) ==
    LET recipe_ingredients_ == {ri \in recipe_ingredients : ri.recipe_id = recipe.id}
        user_pantry == {item \in BagToSet(pantry) : item.user_id = user_id}
        pantry_ingredient_ids == {item.ingredient_id : item \in user_pantry}
        total_ingredients == Cardinality(recipe_ingredients_)
        owned_ingredients ==
            Cardinality({ri \in recipe_ingredients_ :
                            ri.ingredient_id \in pantry_ingredient_ids})
    IN  IF recipe_ingredients_ = {} THEN 100 * 100
        ELSE RoundHalfEven(owned_ingredients * 100 * 100, total_ingredients)

\* x placed into a sorted list in front of the entries of its own score
InsertByScore_before_equal(sorted, x) ==
    LET n == Cardinality({i \in 1..Len(sorted) :
                             sorted[i].pantry_score > x.pantry_score})
    IN  SubSeq(sorted, 1, n) \o <<x>> \o SubSeq(sorted, n + 1, Len(sorted))

\* x placed into a list sorted by pantry_score descending, behind every entry
\* whose score is not lower
InsertByScore(sorted, x) ==
    LET before == {i \in 1..Len(sorted) : sorted[i].pantry_score >= x.pantry_score}
        n == Cardinality(before)
    IN  SubSeq(sorted, 1, n) \o <<x>> \o SubSeq(sorted, n + 1, Len(sorted))

RECURSIVE SortByScore(_)
\* list.sort(key=pantry_score, reverse=True): a stable sort, entries of equal
\* score keep their order
SortByScore(list) ==
    IF list = << >> THEN << >>
    ELSE InsertByScore(SortByScore(SubSeq(list, 1, Len(list) - 1)), list[Len(list)])

\* get_scored_recipes without the sort
get_scored_recipes_unsorted(meal_type, target_kcal, user_id, tolerance) ==
    LET recipes_ == filter_recipes_by_calories(meal_type, target_kcal, tolerance)
    IN  [i \in 1..Len(recipes_) |->
            [id |-> recipes_[i].id, meal_type |-> recipes_[i].meal_type,
             kcal |-> recipes_[i].kcal, protein_g |-> recipes_[i].protein_g,
             carbs_g |-> recipes_[i].carbs_g, fat_g |-> recipes_[i].fat_g,
             pantry_score |-> calculate_pantry_score(recipes_[i], user_id)]]

\* DietEngine.get_scored_recipes
get_scored_recipes(meal_type, target_kcal, user_id, tolerance) ==
    LET recipes_ == filter_recipes_by_calories(meal_type, target_kcal, tolerance)
        scored_recipes ==
            [i \in 1..Len(recipes_) |->
                [id |-> recipes_[i].id, meal_type |-> recipes_[i].meal_type,
                 kcal |-> recipes_[i].kcal, protein_g |-> recipes_[i].protein_g,
                 carbs_g |-> recipes_[i].carbs_g, fat_g |-> recipes_[i].fat_g,
                 pantry_score |-> calculate_pantry_score(recipes_[i], user_id)]]
    IN  SortByScore(scored_recipes)

\* recipes[:] in place of recipes[:n]
TakeAll(list, n) == list

\* recipes[:n]
Take(list, n) == SubSeq(list, 1, IF Len(list) < n THEN Len(list) ELSE n)

RECURSIVE SumLast(_, _, _)
\* the macro `field` of the last recommendation of slots k..4
SumLast(slot_recipes, field, k) ==
    IF k > Len(MealTypes) THEN 0
    ELSE (IF slot_recipes[MealTypes[k]] = << >> THEN 0
          ELSE slot_recipes[MealTypes[k]][Len(slot_recipes[MealTypes[k]])][field])
         + SumLast(slot_recipes, field, k + 1)

RECURSIVE SumTop(_, _, _)
\* the macro `field` of the top recommendation of slots k..4, a slot without
\* recommendations adding nothing
SumTop(slot_recipes, field, k) ==
    IF k > Len(MealTypes) THEN 0
    ELSE (IF slot_recipes[MealTypes[k]] = << >> THEN 0
          ELSE slot_recipes[MealTypes[k]][1][field])
         + SumTop(slot_recipes, field, k + 1)

\* DietEngine.generate_meal_plan for a stored user
MealPlanOf(user, deficit) ==
    LET tdee == calculate_tdee(user)
        target_daily_kcal == calculate_target_calories(user, deficit)
        meal_targets == get_meal_calorie_targets(target_daily_kcal)
        slot_recipes == [meal_type \in DOMAIN MEAL_DISTRIBUTION |->
                            get_scored_recipes(meal_type, meal_targets[meal_type],
                                               user.id, DefaultTolerance)]
    IN  [user_id |-> user.id,
         tdee |-> tdee,
         target_daily_kcal |-> target_daily_kcal,
         deficit |-> deficit,
         meals |-> [k \in 1..Len(MealTypes) |->
                      [meal_type |-> MealTypes[k],
                       target_kcal |-> RoundHalfEven(meal_targets[MealTypes[k]], 100),
                       recommended_recipes |-> Take(slot_recipes[MealTypes[k]], TopN)]],
         total_macros |->
             [protein_g |-> RoundHalfEven(SumTop(slot_recipes, "protein_g", 1), 10),
              carbs_g |-> RoundHalfEven(SumTop(slot_recipes, "carbs_g", 1), 10),
              fat_g |-> RoundHalfEven(SumTop(slot_recipes, "fat_g", 1), 10)]]

\* generate_meal_plan that plans for the first stored user when user_id is
\* unknown
engine_generate_meal_plan_any_user(user_id, deficit) ==
    LET user == First({u \in users : u.id = user_id})
        other == First(users)
    IN  IF user # None THEN [raised |-> "", plan |-> MealPlanOf(user[1], deficit)]
        ELSE IF other # None
        THEN [raised |-> "", plan |-> MealPlanOf(other[1], deficit)]
        ELSE [raised |-> "ValueError"]

\* generate_meal_plan that raises when a slot has no recipe
engine_generate_meal_plan_no_empty_slot(user_id, deficit) ==
    LET user == First({u \in users : u.id = user_id})
    IN  IF user = None THEN [raised |-> "ValueError"]
        ELSE IF \E k \in 1..Len(MealTypes) :
                   MealPlanOf(user[1], deficit).meals[k].recommended_recipes = << >>
        THEN [raised |-> "ValueError"]
        ELSE [raised |-> "", plan |-> MealPlanOf(user[1], deficit)]

\* DietEngine.generate_meal_plan: the plan, or the ValueError of an unknown user
engine_generate_meal_plan(user_id, deficit) ==
    LET user == First({u \in users : u.id = user_id})
    IN  IF user = None THEN [raised |-> "ValueError"]
        ELSE [raised |-> "", plan |-> MealPlanOf(user[1], deficit)]

\* MealPlanRequest: deficit ge -1000, le 500
MealPlanRequestValid(req) == req.deficit >= -1000 /\ req.deficit <= 500

\* POST /plan/generate that stores the plan it returns
generate_meal_plan_persisting(sub, req) ==
    LET auth == get_current_user(sub)
        result == engine_generate_meal_plan(req.user_id, req.deficit)
        returned == auth.ok /\ MealPlanRequestValid(req) /\ result.raised = ""
    IN  /\ response' =
              IF returned
              THEN [op |-> "generate_meal_plan", status |-> 200, plan |-> result.plan]
              ELSE [op |-> "generate_meal_plan", status |-> 404]
        /\ diet_plans' =
              IF returned
              THEN diet_plans \cup {[id |-> NextId(diet_plans), user_id |-> req.user_id,
                                     duration |-> "daily", status |-> "active"]}
              ELSE diet_plans
        /\ UNCHANGED <<users, ingredients, recipes, recipe_ingredients, pantry,
                       friendships, messages, inflight, tokens>>

\* POST /plan/generate
generate_meal_plan(sub, req) ==
    LET auth == get_current_user(sub)
        result == engine_generate_meal_plan(req.user_id, req.deficit)
    IN  /\ response' =
              IF ~auth.ok
              THEN [op |-> "generate_meal_plan", status |-> auth.status]
              ELSE IF ~MealPlanRequestValid(req)
              THEN [op |-> "generate_meal_plan", status |-> 422]
              ELSE IF result.raised = "ValueError"
              THEN [op |-> "generate_meal_plan", status |-> 404]
              ELSE [op |-> "generate_meal_plan", status |-> 200, plan |-> result.plan]
        /\ UNCHANGED <<users, ingredients, recipes, recipe_ingredients, pantry, diet_plans,
                       friendships, messages, inflight, tokens>>

----------------------------------------------------------------------------
(* main.py: the health endpoints and the endpoints of the AI coach *)

AllTablesUnchanged ==
    UNCHANGED <<users, ingredients, recipes, recipe_ingredients, pantry, diet_plans,
                friendships, messages, inflight, tokens>>

\* the body of both health endpoints: HealthMetrics of the user, or 400 with the
\* message of the ValueError as detail
HealthResponse(op, user) ==
    LET result == get_health_metrics(user)
    IN  IF result.raised = "ValueError"
        THEN [op |-> op, status |-> 400, detail |-> result.message]
        ELSE [op |-> op, status |-> 200, user_id |-> user.id,
              metrics |-> result.metrics]

\* GET /users/me/health
get_current_user_health(sub) ==
    LET auth == get_current_user(sub)
    IN  /\ response' =
              IF ~auth.ok
              THEN [op |-> "get_current_user_health", status |-> auth.status]
              ELSE HealthResponse("get_current_user_health", auth.user)
        /\ AllTablesUnchanged

\* GET /users/{user_id}/health
get_user_health_metrics(sub, user_id) ==
    LET auth == get_current_user(sub)
        user == First({u \in users : u.id = user_id})
    IN  /\ response' =
              IF ~auth.ok
              THEN [op |-> "get_user_health_metrics", status |-> auth.status]
              ELSE IF user = None
              THEN [op |-> "get_user_health_metrics", status |-> 404]
              ELSE HealthResponse("get_user_health_metrics", user[1])
        /\ AllTablesUnchanged

\* POST /ai/chat with ChatRequest.user_id = request_user_id (None or an id): the
\* metrics of that user are the context of the coach, and a ValueError of the
\* metrics is passed over
chat_with_ai(sub, request_user_id) ==
    LET auth == get_current_user(sub)
        user == IF request_user_id = None THEN None
                ELSE First({u \in users : u.id = request_user_id[1]})
        user_context ==
            IF user = None THEN None
            ELSE IF get_health_metrics(user[1]).raised = "ValueError" THEN None
            ELSE Some(get_health_metrics(user[1]).metrics)
    IN  /\ response' =
              IF ~auth.ok
              THEN [op |-> "chat_with_ai", status |-> auth.status]
              ELSE [op |-> "chat_with_ai", status |-> 200,
                    user_context_used |-> user_context # None]
        /\ AllTablesUnchanged

\* the user_health of suggest_recipes when the metrics raise ValueError
DefaultUserHealth == [tdee |-> 200000, bmi |-> 2200]

\* GeminiCoach.suggest_recipes: the health focus chosen from the bmi
HealthFocus(bmi) ==
    IF bmi < 1850 THEN "weight gain"
    ELSE IF bmi > 2500 THEN "weight management"
    ELSE "maintaining"

\* what the call of the AI service comes to: recipes, or a result with "error"
\* (service not configured, unparsable answer, any exception of the call)
AIOutcomes == {"recipes", "error"}

\* POST /ai/suggest-recipes
suggest_recipes(sub, outcome) ==
    LET auth == get_current_user(sub)
        result == get_health_metrics(auth.user)
        user_health == IF result.raised = "ValueError" THEN DefaultUserHealth
                       ELSE [tdee |-> result.metrics.tdee, bmi |-> result.metrics.bmi]
    IN  /\ response' =
              IF ~auth.ok
              THEN [op |-> "suggest_recipes", status |-> auth.status]
              ELSE IF outcome = "error"
              THEN [op |-> "suggest_recipes", status |-> 500]
              ELSE [op |-> "suggest_recipes", status |-> 200,
                    user_tdee |-> user_health.tdee,
                    user_goal |-> HealthFocus(user_health.bmi)]
        /\ AllTablesUnchanged

\* the durations of PlanDuration
PlanDurations == {"daily", "weekly", "monthly"}

\* the parameters of GeminiCoach.generate_diet_plan
GenerateDietPlanParameters ==
    {"user_profile", "duration", "dietary_preferences", "pantry_ingredients",
     "excluded_ingredients", "included_ingredients"}

\* the keyword arguments generate_diet_plan_endpoint calls it with
GenerateDietPlanKeywords ==
    {"user_profile", "duration", "dietary_preferences", "pantry_ingredients",
     "excluded_ingredients", "included_ingredients", "workout_preference"}

\* what the call of ai_coach.generate_diet_plan comes to when the service
\* would deliver `outcome` (a result with "error", one without days, a plan):
\* a keyword that is no parameter raises TypeError before the service runs
CallOfGenerateDietPlan(outcome) ==
    IF GenerateDietPlanKeywords \subseteq GenerateDietPlanParameters
    THEN outcome ELSE "TypeError"

PlanOutcomes == {"error", "no_days", "plan"}

\* the plans with every active plan of the user archived
ArchiveActive(plans, user_id) ==
    {IF p.user_id = user_id /\ p.status = "active"
     THEN [p EXCEPT !.status = "archived"] ELSE p : p \in plans}

\* generate_diet_plan_endpoint that archives the active plans before it looks
\* at the result of the call
StorePlan_archive_first(plans, user_id, duration, call) ==
    IF call = "TypeError"
    THEN [status |-> 500, raised |-> "TypeError", plans |-> ArchiveActive(plans, user_id)]
    ELSE IF call \in {"error", "no_days"}
    THEN [status |-> 500, raised |-> "HTTPException",
          plans |-> ArchiveActive(plans, user_id)]
    ELSE [status |-> 200, raised |-> "",
          plans |-> ArchiveActive(plans, user_id)
                      \cup {[id |-> NextId(plans), user_id |-> user_id,
                             duration |-> duration, status |-> "active"]}]

\* generate_diet_plan_endpoint from the call of the AI service on, for the
\* stored plans `plans`: the status of the response and the plans it leaves
StorePlan(plans, user_id, duration, call) ==
    IF call = "TypeError"
    THEN [status |-> 500, raised |-> "TypeError", plans |-> plans]
    ELSE IF call \in {"error", "no_days"}
    THEN [status |-> 500, raised |-> "HTTPException", plans |-> plans]
    ELSE [status |-> 200, raised |-> "",
          plans |-> ArchiveActive(plans, user_id)
                      \cup {[id |-> NextId(plans), user_id |-> user_id,
                             duration |-> duration, status |-> "active"]}]

\* POST /plans/generate.  The handler calls ai_coach.generate_diet_plan with the
\* keyword workout_preference, which GeminiCoach.generate_diet_plan does not
\* take: the call raises TypeError before anything is written, and the request
\* ends as 500.
generate_diet_plan_endpoint(sub, duration, outcome) ==
    LET auth == get_current_user(sub)
        stored == StorePlan(diet_plans, auth.user.id, duration,
                            CallOfGenerateDietPlan(outcome))
    IN  /\ IF ~auth.ok
           THEN /\ response' = [op |-> "generate_diet_plan_endpoint",
                                status |-> auth.status]
                /\ UNCHANGED diet_plans
           ELSE /\ response' = [op |-> "generate_diet_plan_endpoint",
                                status |-> stored.status,
                                raised |-> stored.raised]
                /\ diet_plans' = stored.plans
        /\ UNCHANGED <<users, ingredients, recipes, recipe_ingredients, pantry,
                       friendships, messages, inflight, tokens>>

\* GET /plans/current: the active plan of the caller that was created last
\* (created_at grows with the id)
get_current_plan(sub) ==
    LET auth == get_current_user(sub)
        active == {p \in diet_plans : p.user_id = auth.user.id /\ p.status = "active"}
    IN  /\ response' =
              IF ~auth.ok
              THEN [op |-> "get_current_plan", status |-> auth.status]
              ELSE IF active = {}
              THEN [op |-> "get_current_plan", status |-> 404]
              ELSE [op |-> "get_current_plan", status |-> 200,
                    plan |-> CHOOSE p \in active : \A q \in active : q.id <= p.id]
        /\ AllTablesUnchanged

\* the plans after delete_active_plan archived the active plan `first` its
\* query returned
ArchiveOne(plans, first) ==
    (plans \ {first}) \cup {[first EXCEPT !.status = "archived"]}

\* DELETE /plans/current: the first active plan of the caller is archived; the
\* answer is 200 with or without one
delete_active_plan(sub) ==
    LET auth == get_current_user(sub)
        active == {p \in diet_plans : p.user_id = auth.user.id /\ p.status = "active"}
    IN  /\ IF ~auth.ok
           THEN /\ response' = [op |-> "delete_active_plan", status |-> auth.status]
                /\ UNCHANGED diet_plans
           ELSE IF active = {}
           THEN /\ response' = [op |-> "delete_active_plan", status |-> 200,
                                message |-> "No active plan found to delete"]
                /\ UNCHANGED diet_plans
           ELSE \E active_plan \in active :
                   /\ diet_plans' = ArchiveOne(diet_plans, active_plan)
                   /\ response' = [op |-> "delete_active_plan", status |-> 200,
                                   message |-> "Plan successfully reset"]
        /\ UNCHANGED <<users, ingredients, recipes, recipe_ingredients, pantry,
                       friendships, messages, inflight, tokens>>

----------------------------------------------------------------------------
(* main.py: friendships and direct messages *)

\* A friendships row is [id, sender_id, receiver_id, status], status "pending"
\* or "accepted": the columns the handlers read and write.

\* the friendship rows between two users, in either direction
FriendshipsBetween(a, b) ==
    {f \in friendships : \/ f.sender_id = a /\ f.receiver_id = b
                         \/ f.sender_id = b /\ f.receiver_id = a}

\* the query of send_message and unfriend_user: the first accepted row between
\* the two users
AcceptedBetween(a, b) ==
    First({f \in FriendshipsBetween(a, b) : f.status = "accepted"})

\* POST /friends/request/{user_id}
send_friend_request(sub, user_id) ==
    LET auth == get_current_user(sub)
        target_user == First({u \in users : u.id = user_id})
        existing == First(FriendshipsBetween(auth.user.id, user_id))
    IN  /\ IF ~auth.ok
           THEN /\ response' = [op |-> "send_friend_request", status |-> auth.status]
                /\ UNCHANGED friendships
           ELSE IF user_id = auth.user.id
           THEN /\ response' = [op |-> "send_friend_request", status |-> 400]
                /\ UNCHANGED friendships
           ELSE IF target_user = None
           THEN /\ response' = [op |-> "send_friend_request", status |-> 404]
                /\ UNCHANGED friendships
           ELSE IF existing # None
           THEN /\ response' = [op |-> "send_friend_request", status |-> 400]
                /\ UNCHANGED friendships
           ELSE /\ friendships' = friendships \cup
                       {[id |-> NextId(friendships), sender_id |-> auth.user.id,
                         receiver_id |-> user_id, status |-> "pending"]}
                /\ response' = [op |-> "send_friend_request", status |-> 201,
                                id |-> NextId(friendships)]
        /\ UNCHANGED <<users, ingredients, recipes, recipe_ingredients, pantry,
                       diet_plans, messages, inflight, tokens>>

\* POST /friends/accept/{request_id}
accept_friend_request(sub, request_id) ==
    LET auth == get_current_user(sub)
        friend_request ==
            First({f \in friendships : /\ f.id = request_id
                                       /\ f.receiver_id = auth.user.id
                                       /\ f.status = "pending"})
    IN  /\ IF ~auth.ok
           THEN /\ response' = [op |-> "accept_friend_request", status |-> auth.status]
                /\ UNCHANGED friendships
           ELSE IF friend_request = None
           THEN /\ response' = [op |-> "accept_friend_request", status |-> 404]
                /\ UNCHANGED friendships
           ELSE /\ friendships' = (friendships \ {friend_request[1]}) \cup
                       {[friend_request[1] EXCEPT !.status = "accepted"]}
                /\ response' = [op |-> "accept_friend_request", status |-> 200,
                                id |-> request_id]
        /\ UNCHANGED <<users, ingredients, recipes, recipe_ingredients, pantry,
                       diet_plans, messages, inflight, tokens>>

\* DELETE /friends/reject/{request_id}
reject_friend_request(sub, request_id) ==
    LET auth == get_current_user(sub)
        friend_request ==
            First({f \in friendships : /\ f.id = request_id
                                       /\ f.status = "pending"
                                       /\ \/ f.receiver_id = auth.user.id
                                          \/ f.sender_id = auth.user.id})
    IN  /\ IF ~auth.ok
           THEN /\ response' = [op |-> "reject_friend_request", status |-> auth.status]
                /\ UNCHANGED friendships
           ELSE IF friend_request = None
           THEN /\ response' = [op |-> "reject_friend_request", status |-> 404]
                /\ UNCHANGED friendships
           ELSE /\ friendships' = friendships \ {friend_request[1]}
                /\ response' = [op |-> "reject_friend_request", status |-> 204]
        /\ UNCHANGED <<users, ingredients, recipes, recipe_ingredients, pantry,
                       diet_plans, messages, inflight, tokens>>

\* DELETE /friends/{user_id}
unfriend_user(sub, user_id) ==
    LET auth == get_current_user(sub)
        friendship == AcceptedBetween(auth.user.id, user_id)
    IN  /\ IF ~auth.ok
           THEN /\ response' = [op |-> "unfriend_user", status |-> auth.status]
                /\ UNCHANGED friendships
           ELSE IF friendship = None
           THEN /\ response' = [op |-> "unfriend_user", status |-> 404]
                /\ UNCHANGED friendships
           ELSE /\ friendships' = friendships \ {friendship[1]}
                /\ response' = [op |-> "unfriend_user", status |-> 204]
        /\ UNCHANGED <<users, ingredients, recipes, recipe_ingredients, pantry,
                       diet_plans, messages, inflight, tokens>>

\* MessageCreate: content of 1 to 5000 characters, given by its length
MessageCreateValid(message) ==
    message.content_length >= 1 /\ message.content_length <= 5000

\* POST /messages/send that takes a friendship of any status
send_message_any_friendship(sub, message) ==
    LET auth == get_current_user(sub)
        receiver == First({u \in users : u.id = message.receiver_id})
        friendship == First(FriendshipsBetween(auth.user.id, message.receiver_id))
    IN  /\ Cardinality(messages) < MaxMessages
        /\ IF ~auth.ok
           THEN /\ response' = [op |-> "send_message", status |-> auth.status]
                /\ UNCHANGED messages
           ELSE IF ~MessageCreateValid(message)
           THEN /\ response' = [op |-> "send_message", status |-> 422]
                /\ UNCHANGED messages
           ELSE IF receiver = None
           THEN /\ response' = [op |-> "send_message", status |-> 404]
                /\ UNCHANGED messages
           ELSE IF message.receiver_id = auth.user.id
           THEN /\ response' = [op |-> "send_message", status |-> 400]
                /\ UNCHANGED messages
           ELSE IF ~auth.user.is_superuser /\ friendship = None
           THEN /\ response' = [op |-> "send_message", status |-> 403]
                /\ UNCHANGED messages
           ELSE /\ messages' = messages \cup
                       {[id |-> NextId(messages), sender_id |-> auth.user.id,
                         receiver_id |-> message.receiver_id,
                         content_length |-> message.content_length,
                         is_read |-> FALSE]}
                /\ response' = [op |-> "send_message", status |-> 201,
                                id |-> NextId(messages)]
        /\ UNCHANGED <<users, ingredients, recipes, recipe_ingredients, pantry,
                       diet_plans, friendships, inflight, tokens>>

\* POST /messages/send
send_message(sub, message) ==
    LET auth == get_current_user(sub)
        receiver == First({u \in users : u.id = message.receiver_id})
        friendship == AcceptedBetween(auth.user.id, message.receiver_id)
    IN  /\ Cardinality(messages) < MaxMessages
        /\ IF ~auth.ok
           THEN /\ response' = [op |-> "send_message", status |-> auth.status]
                /\ UNCHANGED messages
           ELSE IF ~MessageCreateValid(message)
           THEN /\ response' = [op |-> "send_message", status |-> 422]
                /\ UNCHANGED messages
           ELSE IF receiver = None
           THEN /\ response' = [op |-> "send_message", status |-> 404]
                /\ UNCHANGED messages
           ELSE IF message.receiver_id = auth.user.id
           THEN /\ response' = [op |-> "send_message", status |-> 400]
                /\ UNCHANGED messages
           ELSE IF ~auth.user.is_superuser /\ friendship = None
           THEN /\ response' = [op |-> "send_message", status |-> 403]
                /\ UNCHANGED messages
           ELSE /\ messages' = messages \cup
                       {[id |-> NextId(messages), sender_id |-> auth.user.id,
                         receiver_id |-> message.receiver_id,
                         content_length |-> message.content_length,
                         is_read |-> FALSE]}
                /\ response' = [op |-> "send_message", status |-> 201,
                                id |-> NextId(messages)]
        /\ UNCHANGED <<users, ingredients, recipes, recipe_ingredients, pantry,
                       diet_plans, friendships, inflight, tokens>>

----------------------------------------------------------------------------
(* The request inputs the model draws from *)

Emails == {"a@x.io", "b@x.io"}

IngredientNames == {"egg", "rice"}

\* path parameters: the ids of the rows the model can create, and one more
UserIds == 1..(Cardinality(Emails) + 1)

IngredientIds == 1..(Cardinality(IngredientNames) + 1)

Quantities == {1, 2}

\* the body measurements every sign-up of the model sends
BaseMeasurements ==
    [height_cm |-> 17000, weight_kg |-> 7000, age |-> 30,
     activity_level |-> "moderate", waist_cm |-> 8000, neck_cm |-> 3500]

UserCreateOf(email, gender, hip_cm) ==
    [email |-> email, gender |-> gender, hip_cm |-> hip_cm,
     height_cm |-> BaseMeasurements.height_cm,
     weight_kg |-> BaseMeasurements.weight_kg, age |-> BaseMeasurements.age,
     activity_level |-> BaseMeasurements.activity_level,
     waist_cm |-> BaseMeasurements.waist_cm, neck_cm |-> BaseMeasurements.neck_cm]

\* UserCreate bodies: valid ones, a female one without hip_cm, and one whose
\* gender does not match the schema's pattern
UserCreateInputs ==
    {UserCreateOf(e, g, h) : e \in Emails, g \in {"male", "female"},
                            h \in {None, Some(9500)}}
    \cup {UserCreateOf("a@x.io", "Female", Some(9500))}

\* UserUpdate bodies (only the fields that are set)
UserUpdateInputs ==
    {[gender |-> Some(g)] : g \in {"male", "female", "Female"}}
    \cup {[gender |-> None]}
    \cup {[hip_cm |-> h] : h \in {None, Some(9500)}}
    \cup {[gender |-> Some("female"), hip_cm |-> Some(9500)]}
    \cup {[email |-> Some(e)] : e \in Emails}

PantryItemInputs ==
    {[ingredient_id |-> i, quantity |-> q] : i \in IngredientIds, q \in Quantities}

----------------------------------------------------------------------------
(* The request-at-a-time behaviour of the API, from an empty database *)

Init ==
    /\ users = {}
    /\ ingredients = {}
    /\ recipes = {}
    /\ recipe_ingredients = {}
    /\ pantry = EmptyBag
    /\ diet_plans = {}
    /\ friendships = {}
    /\ messages = {}
    /\ inflight = << >>
    /\ tokens = {}
    /\ response = [op |-> "none", status |-> 0]

\* the requests that create and update users
Next ==
    \/ \E input \in UserCreateInputs : signup(input)
    \/ \E input \in UserCreateInputs : create_user(input)
    \/ \E sub \in Emails, d \in UserUpdateInputs : update_current_user_profile(sub, d)
    \/ \E sub \in Emails, id \in UserIds, d \in UserUpdateInputs : update_user(sub, id, d)

Spec == Init /\ [][Next]_vars

\* Pantry requests, with users signing up and ingredients being created
PantryNext ==
    \/ \E e \in Emails : signup(UserCreateOf(e, "male", None))
    \/ \E sub \in Emails, name \in IngredientNames : create_ingredient(sub, name)
    \/ \E sub \in Emails, id \in UserIds, item \in PantryItemInputs :
          add_to_pantry(sub, id, item)
    \/ \E sub \in Emails, id \in UserIds, i \in IngredientIds, q \in Quantities :
          update_pantry_item(sub, id, i, q)
    \/ \E sub \in Emails, id \in UserIds, i \in IngredientIds :
          remove_from_pantry(sub, id, i)

SpecPantry == Init /\ [][PantryNext]_vars

----------------------------------------------------------------------------
(* Meal plans: the stored data the engine is applied to *)

\* the longest catalog of the calorie-band data
MaxCatalog == 2
\* the largest number of lunches that vary in the ranking data
MaxRanked == 6

\* a recipe of a catalog: the Recipe columns the engine reads and the
\* ingredient ids of its recipe_ingredients rows
Kind(meal_type, kcal, protein_g, carbs_g, fat_g, ingredient_ids) ==
    [meal_type |-> meal_type, kcal |-> kcal, protein_g |-> protein_g,
     carbs_g |-> carbs_g, fat_g |-> fat_g, ingredient_ids |-> ingredient_ids]

\* recipes at and next to the bounds of the lunch band of a 2000 kcal day
\* (630 to 770 kcal), and recipes of the other meal types
BandKinds ==
    { Kind("lunch", 70000, 10125, 20000, 5000, <<1, 2, 3, 4>>),
      Kind("lunch", 77000, 20000, 30375, 7000, <<1, 2, 3>>),
      Kind("lunch", 77001, 30000, 10000, 9000, << >>),
      Kind("lunch", 77100, 12000, 11000, 3000, <<2>>),
      Kind("lunch", 63000, 15000, 25000, 8256, <<1>>),
      Kind("lunch", 62999, 16000, 26000, 6000, <<1>>),
      Kind("dinner", 66000, 40000, 50000, 20000, <<2>>),
      Kind("breakfast", 50000, 8000, 60000, 4000, << >>),
      Kind("snack", 20000, 2000, 3000, 1000, <<1, 1>>) }

\* lunches of one calorie value that differ in ingredients and macros
RankKinds ==
    { Kind("lunch", 70000, 10125, 20000, 5000, <<1, 2>>),
      Kind("lunch", 70000, 20000, 30375, 7000, <<1>>) }

Catalogs(kinds, n) == UNION {[1..k -> kinds] : k \in 0..n}

\* the recipes table after the recipes of catalog c were created in order
CatalogRecipes(c) ==
    {[id |-> i, meal_type |-> c[i].meal_type, kcal |-> c[i].kcal,
      protein_g |-> c[i].protein_g, carbs_g |-> c[i].carbs_g,
      fat_g |-> c[i].fat_g] : i \in 1..Len(c)}

\* the recipe_ingredients table of catalog c
CatalogIngredients(c) ==
    UNION {{[id |-> 10 * i + j, recipe_id |-> i,
             ingredient_id |-> c[i].ingredient_ids[j]] :
                j \in 1..Len(c[i].ingredient_ids)} : i \in 1..Len(c)}

StoredIngredients ==
    {[id |-> 1, name |-> "egg"], [id |-> 2, name |-> "rice"],
     [id |-> 3, name |-> "milk"], [id |-> 4, name |-> "oat"]}

\* the pantry of user 1 holding the ingredients ids
PantryOf(ids) ==
    SetToBag({[user_id |-> 1, ingredient_id |-> i, quantity |-> 1] : i \in ids})

PantryChoices == {{}, {1}, {1, 2}}

\* the stored user: 180 cm, 21 years
StoredUser(gender, activity_level, weight_kg) ==
    [id |-> 1, email |-> "a@x.io", gender |-> gender, height_cm |-> 18000,
     weight_kg |-> weight_kg, age |-> 21, activity_level |-> activity_level,
     waist_cm |-> 8000, neck_cm |-> 3500,
     hip_cm |-> IF gender = "female" THEN Some(9500) ELSE None,
     is_active |-> TRUE, is_superuser |-> FALSE]

\* a man of 85 kg: bmr 1875, tdee 2250 when sedentary
ReferenceUser == StoredUser("male", "sedentary", 8500)

\* the stored users of the target data: both genders, four activity levels and
\* three weights; for each of them every rounding of the plan is the rounding
\* of a value that is no decimal tie (on a tie round(x, 2) depends on the binary
\* representation of x)
TargetUsers ==
    { StoredUser("male", "sedentary", 8500), StoredUser("male", "light", 8500),
      StoredUser("male", "sedentary", 5000), StoredUser("male", "athlete", 7250),
      StoredUser("female", "sedentary", 8500), StoredUser("female", "light", 8500),
      StoredUser("female", "sedentary", 5000), StoredUser("female", "moderate", 7250),
      StoredUser("female", "athlete", 7250) }

\* one of the users of the target data, no recipes
InitTargets ==
    /\ \E u \in TargetUsers : users = {u}
    /\ recipes = {}
    /\ recipe_ingredients = {}
    /\ pantry = EmptyBag

\* the reference user with a catalog around the calorie bands
InitBand ==
    /\ users = {ReferenceUser}
    /\ \E c \in Catalogs(BandKinds, MaxCatalog) :
          /\ recipes = CatalogRecipes(c)
          /\ recipe_ingredients = CatalogIngredients(c)
    /\ \E ids \in PantryChoices : pantry = PantryOf(ids)

\* the lunch created before and the dinner created after the lunches of the
\* ranking data
RankLunch == Kind("lunch", 70000, 30000, 10000, 9625, <<3>>)
RankDinner == Kind("dinner", 60000, 40000, 50000, 20000, <<2>>)

\* the reference user with a catalog of lunches and one dinner
InitRank ==
    /\ users = {ReferenceUser}
    /\ \E c \in Catalogs(RankKinds, MaxRanked) :
          /\ recipes = CatalogRecipes(<<RankLunch>> \o c \o <<RankDinner>>)
          /\ recipe_ingredients =
                CatalogIngredients(<<RankLunch>> \o c \o <<RankDinner>>)
    /\ \E ids \in PantryChoices : pantry = PantryOf(ids)

InitEngine ==
    /\ ingredients = StoredIngredients
    /\ diet_plans = {}
    /\ friendships = {}
    /\ messages = {}
    /\ inflight = << >>
    /\ tokens = {}
    /\ response = [op |-> "none", status |-> 0]
    /\ (InitTargets \/ InitBand \/ InitRank)

PlanDeficits == {-3000, -1000, -250, 500}
MealPlanRequests == [user_id : {1, 2}, deficit : PlanDeficits]

\* the requests for a meal plan
EngineNext ==
    \E sub \in Emails, req \in MealPlanRequests : generate_meal_plan(sub, req)

SpecEngine == InitEngine /\ [][EngineNext]_vars

----------------------------------------------------------------------------
(* Health metrics: the stored users they are computed for *)

\* a stored user with the given measurements, 70 kg and 30 years old
MeasuredUser(gender, activity_level, height_cm, waist_cm, neck_cm, hip_cm) ==
    [id |-> 1, email |-> "a@x.io", gender |-> gender, height_cm |-> height_cm,
     weight_kg |-> 7000, age |-> 30, activity_level |-> activity_level,
     waist_cm |-> waist_cm, neck_cm |-> neck_cm, hip_cm |-> hip_cm,
     is_active |-> TRUE, is_superuser |-> FALSE]

\* waist and neck: waist above the neck, equal to it, below it
WaistNeck == {<<8000, 3500>>, <<3500, 3500>>, <<3000, 4000>>}

\* hip: not stored, a usual one, one that leaves waist + hip - neck at 0
HipChoices == {None, Some(9500), Some(1000)}

\* the heights: 175 cm, and 170.03 cm for which the unrounded bmr has four
\* decimals and neither the bmr nor a tdee is the rounding of a decimal tie
Heights == {17500, 17003}

\* every row of users that the sign-up and the profile updates can leave
HealthUsers ==
    { MeasuredUser(g, a, h, wn[1], wn[2], hip) :
        g \in {"male", "female"}, a \in {"sedentary", "light", "athlete"},
        h \in Heights, wn \in WaistNeck, hip \in HipChoices }

InitHealth ==
    /\ users \in { {u} : u \in HealthUsers }
    /\ ingredients = {}
    /\ recipes = {}
    /\ recipe_ingredients = {}
    /\ pantry = EmptyBag
    /\ diet_plans = {}
    /\ friendships = {}
    /\ messages = {}
    /\ inflight = << >>
    /\ tokens = {}
    /\ response = [op |-> "none", status |-> 0]

HealthNext ==
    \/ \E sub \in Emails : get_current_user_health(sub)
    \/ \E sub \in Emails, user_id \in UserIds : get_user_health_metrics(sub, user_id)
    \/ \E sub \in Emails, request_user_id \in {None} \cup {Some(i) : i \in UserIds} :
           chat_with_ai(sub, request_user_id)
    \/ \E sub \in Emails, outcome \in AIOutcomes : suggest_recipes(sub, outcome)
    \/ \E sub \in Emails, duration \in PlanDurations, outcome \in PlanOutcomes :
           generate_diet_plan_endpoint(sub, duration, outcome)
    \/ \E sub \in Emails : get_current_plan(sub)
    \/ \E sub \in Emails : delete_active_plan(sub)

SpecHealth == InitHealth /\ [][HealthNext]_vars

----------------------------------------------------------------------------
(* Requests that overlap.  The handlers run in the thread pool and every one *)
(* of them has a session of its own on the SQLite file; a SELECT of a        *)
(* session reads what is committed at that moment (the driver opens a        *)
(* transaction only in front of a write).  A handler is therefore a          *)
(* sequence of steps, one per query or commit, and the steps of the          *)
(* requests in flight interleave.                                            *)

\* the number of plan requests that are in flight together
MaxPlanCalls == 1
\* the number of pantry requests that are in flight together
MaxInflight == 2

Calls == BagToSet(inflight)

Started(call) == inflight (+) SetToBag({call})

Finished(call) == inflight (-) SetToBag({call})

Advanced(call, next) == (inflight (-) SetToBag({call})) (+) SetToBag({next})

\* the recipes DietEngine.generate_meal_plan scores, in the order in which it
\* scores them: slot by slot, the filtered recipes of the slot by id
RECURSIVE PlanCandidatesFrom(_, _)
PlanCandidatesFrom(meal_targets, k) ==
    IF k > Len(MealTypes) THEN << >>
    ELSE filter_recipes_by_calories(MealTypes[k], meal_targets[MealTypes[k]],
                                    DefaultTolerance)
           \o PlanCandidatesFrom(meal_targets, k + 1)

PlanCandidates(user, deficit) ==
    PlanCandidatesFrom(
        get_meal_calorie_targets(calculate_target_calories(user, deficit)), 1)

\* the ingredient ids of the pantry rows of a user
PantryIngredientIds(user_id) ==
    {item.ingredient_id : item \in {p \in BagToSet(pantry) : p.user_id = user_id}}

\* the plan DietEngine.generate_meal_plan returns when scores[i] is what
\* calculate_pantry_score returned for the i-th recipe it scored
MealPlanWith(user, deficit, scores) ==
    LET tdee == calculate_tdee(user)
        target_daily_kcal == calculate_target_calories(user, deficit)
        meal_targets == get_meal_calorie_targets(target_daily_kcal)
        candidates == PlanCandidates(user, deficit)
        scored == [i \in 1..Len(candidates) |->
                     [id |-> candidates[i].id, meal_type |-> candidates[i].meal_type,
                      kcal |-> candidates[i].kcal, protein_g |-> candidates[i].protein_g,
                      carbs_g |-> candidates[i].carbs_g, fat_g |-> candidates[i].fat_g,
                      pantry_score |-> scores[i]]]
        slot_recipes == [meal_type \in DOMAIN MEAL_DISTRIBUTION |->
                            SortByScore(SelectSeq(scored,
                                LAMBDA r : r.meal_type = meal_type))]
    IN  [user_id |-> user.id,
         tdee |-> tdee,
         target_daily_kcal |-> target_daily_kcal,
         deficit |-> deficit,
         meals |-> [k \in 1..Len(MealTypes) |->
                      [meal_type |-> MealTypes[k],
                       target_kcal |-> RoundHalfEven(meal_targets[MealTypes[k]], 100),
                       recommended_recipes |-> Take(slot_recipes[MealTypes[k]], TopN)]],
         total_macros |->
             [protein_g |-> RoundHalfEven(SumTop(slot_recipes, "protein_g", 1), 10),
              carbs_g |-> RoundHalfEven(SumTop(slot_recipes, "carbs_g", 1), 10),
              fat_g |-> RoundHalfEven(SumTop(slot_recipes, "fat_g", 1), 10)]]

\* POST /plan/generate up to the query of the user: the request is answered at
\* once when it is rejected, and is in flight otherwise.  reads are the
\* pantry_ingredient_ids the calls of calculate_pantry_score got from their
\* query, pantry_at_start records the pantry of the user when the call began.
begin_generate_meal_plan(sub, req) ==
    LET auth == get_current_user(sub)
        user == First({u \in users : u.id = req.user_id})
    IN  /\ BagCardinality(inflight) < MaxPlanCalls
        /\ IF ~auth.ok
           THEN /\ response' = [op |-> "generate_meal_plan", status |-> auth.status]
                /\ UNCHANGED inflight
           ELSE IF ~MealPlanRequestValid(req)
           THEN /\ response' = [op |-> "generate_meal_plan", status |-> 422]
                /\ UNCHANGED inflight
           ELSE IF user = None
           THEN /\ response' = [op |-> "generate_meal_plan", status |-> 404]
                /\ UNCHANGED inflight
           ELSE /\ inflight' = Started([op |-> "generate_meal_plan", user |-> user[1],
                                        deficit |-> req.deficit, scores |-> << >>,
                                        reads |-> << >>,
                                        pantry_at_start |->
                                            PantryIngredientIds(req.user_id)])
                /\ UNCHANGED response
        /\ UNCHANGED <<db, tokens>>

\* one calculate_pantry_score of a call in flight: its queries read the
\* recipe_ingredients and the pantry as they are stored now
score_next_recipe(call) ==
    LET candidates == PlanCandidates(call.user, call.deficit)
        k == Len(call.scores) + 1
    IN  /\ call.op = "generate_meal_plan"
        /\ k <= Len(candidates)
        /\ inflight' = Advanced(call,
               [call EXCEPT
                   !.scores =
                       Append(@, calculate_pantry_score(candidates[k], call.user.id)),
                   !.reads = Append(@, PantryIngredientIds(call.user.id))])
        /\ UNCHANGED <<db, tokens, response>>

\* the end of a call in flight: every recipe is scored and the plan is returned
return_meal_plan(call) ==
    /\ call.op = "generate_meal_plan"
    /\ Len(call.scores) = Len(PlanCandidates(call.user, call.deficit))
    /\ response' = [op |-> "generate_meal_plan", status |-> 200,
                    plan |-> MealPlanWith(call.user, call.deficit, call.scores)]
    /\ inflight' = Finished(call)
    /\ UNCHANGED <<db, tokens>>

\* POST /pantry/{user_id} up to the query of the existing row
begin_add_to_pantry(sub, user_id, item) ==
    LET auth == get_current_user(sub)
        user == First({u \in users : u.id = user_id})
        ingredient == First({i \in ingredients : i.id = item.ingredient_id})
        matching == PantryRows(user_id, item.ingredient_id)
    IN  /\ BagCardinality(inflight) < MaxInflight
        /\ IF ~auth.ok
           THEN /\ response' = [op |-> "add_to_pantry", status |-> auth.status]
                /\ UNCHANGED inflight
           ELSE IF ~(item.quantity > 0)
           THEN /\ response' = [op |-> "add_to_pantry", status |-> 422]
                /\ UNCHANGED inflight
           ELSE IF auth.user.id # user_id /\ ~auth.user.is_superuser
           THEN /\ response' = [op |-> "add_to_pantry", status |-> 403]
                /\ UNCHANGED inflight
           ELSE IF user = None \/ ingredient = None
           THEN /\ response' = [op |-> "add_to_pantry", status |-> 404]
                /\ UNCHANGED inflight
           ELSE /\ \E existing \in (IF matching = {} THEN {None}
                                    ELSE {Some(row) : row \in matching}) :
                       inflight' = Started([op |-> "add_to_pantry",
                                            user_id |-> user_id, item |-> item,
                                            existing |-> existing])
                /\ UNCHANGED response
        /\ UNCHANGED <<db, tokens>>

\* the commit of an add_to_pantry in flight.  With an existing row the UPDATE
\* sets the quantity the handler computed from the row it read; the row is
\* found by its id, whatever quantity it holds by now, and when it is gone
\* the commit fails and the request ends as 500.  Without one a row is
\* inserted.
commit_add_to_pantry(call) ==
    LET item == call.item
        stored == PantryRows(call.user_id, item.ingredient_id)
    IN  /\ call.op = "add_to_pantry"
        /\ IF call.existing = None
           THEN /\ pantry' = pantry (+) SetToBag(
                       {[user_id |-> call.user_id,
                         ingredient_id |-> item.ingredient_id,
                         quantity |-> item.quantity]})
                /\ response' = [op |-> "add_to_pantry", status |-> 201,
                                user_id |-> call.user_id,
                                ingredient_id |-> item.ingredient_id,
                                quantity |-> item.quantity]
           ELSE IF stored = {}
           THEN /\ response' = [op |-> "add_to_pantry", status |-> 500]
                /\ UNCHANGED pantry
           ELSE \E row \in stored :
                   /\ call.existing[1].quantity + item.quantity <= MaxQuantity
                   /\ pantry' = ReplaceRow(row,
                          [row EXCEPT !.quantity =
                              call.existing[1].quantity + item.quantity])
                   /\ response' = [op |-> "add_to_pantry", status |-> 201,
                                   user_id |-> call.user_id,
                                   ingredient_id |-> item.ingredient_id,
                                   quantity |-> call.existing[1].quantity
                                                  + item.quantity]
        /\ inflight' = Finished(call)
        /\ UNCHANGED <<users, ingredients, recipes, recipe_ingredients, diet_plans,
                       friendships, messages, tokens>>

\* the second stored user: the reference user under another id and email
OtherUser == [ReferenceUser EXCEPT !.id = 2, !.email = "b@x.io"]

\* three lunches and a dinner in the bands of a 2000 kcal day
OverlapCatalog == <<RankLunch>> \o
    <<Kind("lunch", 70000, 10125, 20000, 5000, <<1, 2>>),
      Kind("lunch", 70000, 20000, 30375, 7000, <<1>>)>> \o <<RankDinner>>

\* what the overlapping requests ask for
OverlapPlanRequests == [user_id : {1, 3}, deficit : {-250}]

OverlapPantryItems == [ingredient_id : {1}, quantity : {1}]

InitOverlap ==
    /\ users = {ReferenceUser, OtherUser}
    /\ ingredients = StoredIngredients
    /\ recipes = CatalogRecipes(OverlapCatalog)
    /\ recipe_ingredients = CatalogIngredients(OverlapCatalog)
    /\ pantry = EmptyBag
    /\ diet_plans = {}
    /\ friendships = {}
    /\ messages = {}
    /\ inflight = EmptyBag
    /\ tokens = {}
    /\ response = [op |-> "none", status |-> 0]

\* plan requests step by step, among pantry requests of both users (for a
\* plan in flight a pantry request is its commit)
OverlapNext ==
    \/ \E sub \in Emails, req \in OverlapPlanRequests :
           begin_generate_meal_plan(sub, req)
    \/ \E call \in Calls : score_next_recipe(call)
    \/ \E call \in Calls : return_meal_plan(call)
    \/ \E sub \in Emails, user_id \in {1, 2}, item \in OverlapPantryItems :
           add_to_pantry(sub, user_id, item)
    \/ \E sub \in Emails, user_id \in {1, 2} : remove_from_pantry(sub, user_id, 1)

SpecOverlap == InitOverlap /\ [][OverlapNext]_vars

\* pantry requests step by step
RaceNext ==
    \/ \E sub \in Emails, user_id \in {1, 2}, item \in OverlapPantryItems :
           begin_add_to_pantry(sub, user_id, item)
    \/ \E call \in Calls : commit_add_to_pantry(call)
    \/ \E sub \in Emails, user_id \in {1, 2} : remove_from_pantry(sub, user_id, 1)

SpecRace == InitOverlap /\ [][RaceNext]_vars

----------------------------------------------------------------------------
(* Accounts: an administrator and two members, tokens issued by login *)

AdminEmail == "root@x.io"

\* the administrator: superusers are made by toggle_user_admin only, so the
\* first one is stored outside the API
AdminUser == [ReferenceUser EXCEPT !.id = 1, !.email = AdminEmail,
                                   !.is_superuser = TRUE]

MemberA == [ReferenceUser EXCEPT !.id = 2, !.email = "a@x.io"]

MemberB == [ReferenceUser EXCEPT !.id = 3, !.email = "b@x.io"]

AccountEmails == {AdminEmail} \cup Emails

\* path parameters: the ids of the administrator and the two members
AccountIds == 1..3

InitAccounts ==
    /\ users = {AdminUser, MemberA}
    /\ ingredients = {}
    /\ recipes = {}
    /\ recipe_ingredients = {}
    /\ pantry = EmptyBag
    /\ diet_plans = {}
    /\ friendships = {}
    /\ messages = {}
    /\ inflight = << >>
    /\ tokens = {}
    /\ response = [op |-> "none", status |-> 0]

\* logins, the administrator's toggles and requests that carry an issued token
AccountsNext ==
    \/ \E email \in AccountEmails, verified \in BOOLEAN : login(email, verified)
    \/ \E t \in tokens, user_id \in AccountIds : toggle_user_active(t.sub, user_id)
    \/ \E t \in tokens, user_id \in AccountIds : toggle_user_admin(t.sub, user_id)
    \/ \E t \in tokens : get_current_user_health(t.sub)
    \/ \E t \in tokens : get_current_plan(t.sub)

SpecAccounts == InitAccounts /\ [][AccountsNext]_vars

\* one stored ingredient for the pantries
InitOwners ==
    /\ users = {AdminUser, MemberA, MemberB}
    /\ ingredients = {[id |-> 1, name |-> "egg"]}
    /\ recipes = {}
    /\ recipe_ingredients = {}
    /\ pantry = EmptyBag
    /\ diet_plans = {}
    /\ friendships = {}
    /\ messages = {}
    /\ inflight = << >>
    /\ tokens = {}
    /\ response = [op |-> "none", status |-> 0]

OwnerUpdates == {[hip_cm |-> Some(9500)], [gender |-> Some("Female")]}

\* the requests on a user's row and pantry, from every caller to every target
OwnersNext ==
    \/ \E sub \in AccountEmails, user_id \in AccountIds, d \in OwnerUpdates :
           update_user(sub, user_id, d)
    \/ \E sub \in AccountEmails, user_id \in AccountIds : delete_user(sub, user_id)
    \/ \E sub \in AccountEmails, user_id \in AccountIds :
           add_to_pantry(sub, user_id, [ingredient_id |-> 1, quantity |-> 1])
    \/ \E sub \in AccountEmails, user_id \in AccountIds :
           update_pantry_item(sub, user_id, 1, 2)
    \/ \E sub \in AccountEmails, user_id \in AccountIds :
           remove_from_pantry(sub, user_id, 1)

SpecOwners == InitOwners /\ [][OwnersNext]_vars

----------------------------------------------------------------------------
(* The recipe catalog being filled *)

\* RecipeCreate bodies: a lunch in the band of a 2000 kcal day with no
\* ingredient, with a stored one, and with a stored one followed by an id no
\* ingredient has; and a body the schema refuses
RecipeBody(kcal, ingredient_ids) ==
    [meal_type |-> "lunch", kcal |-> kcal, protein_g |-> 10125, carbs_g |-> 20000,
     fat_g |-> 5000,
     ingredients |-> [j \in 1..Len(ingredient_ids) |->
                          [ingredient_id |-> ingredient_ids[j], quantity |-> 1]]]

RecipeCreateInputs ==
    {RecipeBody(70000, ids) : ids \in {<< >>, <<1>>, <<2>>, <<1, 9>>}}
    \cup {RecipeBody(-1, <<1>>)}

InitRecipes ==
    /\ users = {ReferenceUser}
    /\ ingredients = {[id |-> 1, name |-> "egg"], [id |-> 2, name |-> "rice"]}
    /\ recipes = {}
    /\ recipe_ingredients = {}
    /\ pantry = EmptyBag
    /\ diet_plans = {}
    /\ friendships = {}
    /\ messages = {}
    /\ inflight = << >>
    /\ tokens = {}
    /\ response = [op |-> "none", status |-> 0]

\* recipes being created, the pantry of user 1 and its meal plans
RecipesNext ==
    \/ \E sub \in Emails, recipe \in RecipeCreateInputs : create_recipe(sub, recipe)
    \/ \E sub \in Emails : add_to_pantry(sub, 1, [ingredient_id |-> 1, quantity |-> 1])
    \/ \E sub \in Emails : generate_meal_plan(sub, [user_id |-> 1, deficit |-> -250])

SpecRecipes == InitRecipes /\ [][RecipesNext]_vars

----------------------------------------------------------------------------
(* Friend requests and direct messages among the three accounts *)

\* MessageCreate bodies: one character to each account and to an id nobody
\* has, and an empty content
MessageInputs ==
    [receiver_id : 1..4, content_length : {1}]
    \cup {[receiver_id |-> 3, content_length |-> 0]}

\* the two members befriend one another; every account sends messages
SocialNext ==
    \/ \E sub \in Emails, user_id \in 2..4 : send_friend_request(sub, user_id)
    \/ \E sub \in AccountEmails, request_id \in 1..2 :
           accept_friend_request(sub, request_id)
    \/ \E sub \in AccountEmails, request_id \in 1..2 :
           reject_friend_request(sub, request_id)
    \/ \E sub \in AccountEmails, user_id \in AccountIds : unfriend_user(sub, user_id)
    \/ \E sub \in AccountEmails, message \in MessageInputs : send_message(sub, message)

SpecSocial == InitOwners /\ [][SocialNext]_vars

----------------------------------------------------------------------------
(* Properties *)

\* the response carries a meal plan
IsPlan == response.op = "generate_meal_plan" /\ response.status = 200

\* the recommendations of slot k of the plan in the response
Recommended(k) == response.plan.meals[k].recommended_recipes

\* the target of slot k of the plan in the response, in 1/10000 kcal
SlotTarget(k) == response.plan.target_daily_kcal * MEAL_DISTRIBUTION[MealTypes[k]]

Slots == 1..Len(MealTypes)

Abs(n) == IF n < 0 THEN -n ELSE n

\* spellings of the gender of a User object
GenderSpellings == {"male", "Male", "female", "Female", "FEMALE", "other"}
FemaleSpellings == {"female", "Female", "FEMALE"}

\* the minimum safe intake of a gender, in hundredths of kcal
SafeFloor(gender) == IF gender \in FemaleSpellings THEN 120000 ELSE 150000

\* deficits down to -100000 kcal
AnyDeficits == PlanDeficits \cup {-100000, -1400, 0}

\* C1: for every user, every spelling of the gender and every deficit,
\* calculate_target_calories is the larger of tdee + deficit and the floor
\* (1200 kcal for a female, 1500 kcal otherwise), and the target_daily_kcal of
\* every returned plan is that value and not below the floor of the plan's user.
C1_TargetNotBelowFloor ==
    /\ \A u \in users, g \in GenderSpellings, d \in AnyDeficits :
          LET v == [u EXCEPT !.gender = g]
              target == calculate_target_calories(v, d)
          IN  /\ target = Max2(calculate_tdee(v) + 100 * d, SafeFloor(g))
              /\ target >= SafeFloor(g)
    /\ IsPlan =>
          \A u \in users :
              u.id = response.plan.user_id =>
                  /\ response.plan.target_daily_kcal >= SafeFloor(u.gender)
                  /\ response.plan.target_daily_kcal =
                        Max2(response.plan.tdee + 100 * response.plan.deficit,
                             SafeFloor(u.gender))

\* a plan of a female user whose tdee + deficit is below 1200 kcal
C1_Witness ==
    /\ IsPlan
    /\ response.plan.tdee + 100 * response.plan.deficit < 120000
    /\ response.plan.target_daily_kcal = 120000
    /\ \E u \in users : u.id = response.plan.user_id /\ u.gender = "female"

\* C2: every stored user whose gender is female has a hip_cm.
C2_FemaleHasHip ==
    \A u \in users : Lower(u.gender) = "female" => u.hip_cm # None

\* the number of pantry rows of a (user, ingredient) pair
RowCount(bag, user_id, ingredient_id) ==
    BagCardinality([p \in {q \in BagToSet(bag) : /\ q.user_id = user_id
                                                  /\ q.ingredient_id = ingredient_id}
                        |-> CopiesIn(p, bag)])

C3_OneRowPerPair ==
    \A u \in UserIds, i \in IngredientIds : RowCount(pantry, u, i) <= 1

\* an accepted add_to_pantry for a pair that has a row leaves the number of rows
\* as it is and turns the quantity q of the row of the pair into q + quantity
C3_AddIncrements ==
    (response'.op = "add_to_pantry" /\ response'.status = 201) =>
        \A sub \in Emails, quantity \in Quantities :
            LET u == response'.user_id
                item == [ingredient_id |-> response'.ingredient_id,
                         quantity |-> quantity]
            IN  (/\ RowCount(pantry, u, item.ingredient_id) >= 1
                 /\ add_to_pantry(sub, u, item))
                => /\ BagCardinality(pantry') = BagCardinality(pantry)
                   /\ \E old \in PantryRows(u, item.ingredient_id) :
                         /\ [old EXCEPT !.quantity = old.quantity + item.quantity]
                                \in BagToSet(pantry')
                         /\ response'.quantity = old.quantity + item.quantity
                   /\ \A p \in BagToSet(pantry) :
                         (p.user_id # u \/ p.ingredient_id # item.ingredient_id)
                            => CopiesIn(p, pantry') = CopiesIn(p, pantry)

\* C3: the pantry holds at most one row per (user, ingredient) pair, and
\* add_to_pantry for a pair that is present adds the quantity to the row of the
\* pair and creates no row.
C3_PantryRows == []C3_OneRowPerPair /\ [][C3_AddIncrements]_vars

\* an add_to_pantry that raised a row to quantity 3 while the pantry holds the
\* row of another pair
C3_Witness ==
    /\ response.op = "add_to_pantry"
    /\ response.status = 201
    /\ response.quantity = 3
    /\ BagCardinality(pantry) >= 2

\* kcal of recipe r is within 10% of the target of slot k, bounds included
InBand(r, k) ==
    /\ r.meal_type = MealTypes[k]
    /\ 9 * SlotTarget(k) <= r.kcal * 1000
    /\ r.kcal * 1000 <= 11 * SlotTarget(k)

SeqRange(list) == {list[i] : i \in 1..Len(list)}
Ids(list) == {list[i].id : i \in 1..Len(list)}

\* C4: a recipe is a candidate of a slot if and only if its meal_type is the
\* slot's and target * 0.9 <= kcal <= target * 1.1, both bounds included; the
\* recommendations of a slot are candidates, and all of them when fewer than 5.
C4_CandidatesInBand ==
    IsPlan =>
        \A k \in Slots :
            LET candidates == filter_recipes_by_calories(
                                  MealTypes[k], SlotTarget(k), DefaultTolerance)
                in_band == {r \in recipes : InBand(r, k)}
            IN  /\ SeqRange(candidates) = in_band
                /\ Len(candidates) = Cardinality(in_band)
                /\ Ids(Recommended(k)) \subseteq {r.id : r \in in_band}
                /\ Len(Recommended(k)) < 5 =>
                      Ids(Recommended(k)) = {r.id : r \in in_band}

\* a recipe exactly at target * 1.10 is recommended and a recipe 0.01 kcal
\* above it is not
C4_Witness ==
    /\ IsPlan
    /\ \E k \in Slots, r \in recipes, above \in recipes :
          /\ r.meal_type = MealTypes[k] /\ above.meal_type = MealTypes[k]
          /\ r.kcal * 1000 = 11 * SlotTarget(k)
          /\ above.kcal = r.kcal + 1
          /\ r.id \in Ids(Recommended(k))
          /\ above.id \notin Ids(Recommended(k))

\* the ingredient entries of a recipe, and those whose ingredient the user owns
Entries(recipe_id) == {ri \in recipe_ingredients : ri.recipe_id = recipe_id}
Owned(recipe_id, user_id) ==
    {ri \in Entries(recipe_id) :
        \E p \in BagToSet(pantry) :
            p.user_id = user_id /\ p.ingredient_id = ri.ingredient_id}

\* score (in hundredths) is owned / total * 100 rounded to 2 decimals, or 100
\* for a recipe without entries
ScoreOk(score, recipe_id, user_id) ==
    LET total == Cardinality(Entries(recipe_id))
        owned == Cardinality(Owned(recipe_id, user_id))
    IN  /\ score >= 0 /\ score <= 10000
        /\ total = 0 => score = 10000
        /\ total > 0 => 2 * Abs(score * total - owned * 10000) <= total
        /\ (total = 4 /\ owned = 1) => score = 2500

\* C5: calculate_pantry_score is owned / total * 100 rounded to 2 decimals,
\* between 0 and 100; 100.0 for a recipe without ingredients whatever the
\* pantry holds, 25.0 for 4 ingredients of which 1 is owned; the pantry_score
\* of every recommendation is that score.
C5_PantryScore ==
    /\ \A r \in recipes, u \in UserIds :
          ScoreOk(calculate_pantry_score(r, u), r.id, u)
    /\ IsPlan =>
          \A k \in Slots : \A x \in SeqRange(Recommended(k)) :
              ScoreOk(x.pantry_score, x.id, response.plan.user_id)

\* a plan that recommends a recipe of 4 ingredients, 1 of them owned, with
\* score 25.0 and a recipe without ingredients with score 100.0
C5_Witness ==
    /\ IsPlan
    /\ pantry # EmptyBag
    /\ \E k, l \in Slots :
          \E x \in SeqRange(Recommended(k)), y \in SeqRange(Recommended(l)) :
              /\ Cardinality(Entries(x.id)) = 4
              /\ Cardinality(Owned(x.id, response.plan.user_id)) = 1
              /\ x.pantry_score = 2500
              /\ Entries(y.id) = {}
              /\ y.pantry_score = 10000

\* C6: the recommendations of every slot are in descending order of
\* pantry_score.
C6_SortedByScore ==
    IsPlan =>
        \A k \in Slots : \A i, j \in 1..Len(Recommended(k)) :
            i < j => Recommended(k)[i].pantry_score >= Recommended(k)[j].pantry_score

\* a slot of three recommendations of three scores, the one created last first
C6_Witness ==
    /\ IsPlan
    /\ \E k \in Slots :
          /\ Len(Recommended(k)) >= 3
          /\ Recommended(k)[1].pantry_score > Recommended(k)[2].pantry_score
          /\ Recommended(k)[2].pantry_score > Recommended(k)[3].pantry_score
          /\ Recommended(k)[1].id > Recommended(k)[3].id

C7_Stable ==
    IsPlan =>
        \A k \in Slots : \A i, j \in 1..Len(Recommended(k)) :
            (i < j /\ Recommended(k)[i].pantry_score = Recommended(k)[j].pantry_score)
                => Recommended(k)[i].id < Recommended(k)[j].id

\* a second call for the same user and deficit on the same stored data returns
\* the plan of the first
C7_Repeatable ==
    (/\ IsPlan
     /\ response'.op = "generate_meal_plan" /\ response'.status = 200
     /\ response'.plan.user_id = response.plan.user_id
     /\ response'.plan.deficit = response.plan.deficit
     /\ UNCHANGED <<users, ingredients, recipes, recipe_ingredients, pantry, diet_plans>>)
    => response'.plan = response.plan

C8_TopFive ==
    IsPlan =>
        \A k \in Slots :
            LET ranked == get_scored_recipes(MealTypes[k], SlotTarget(k),
                                             response.plan.user_id, DefaultTolerance)
                n == Len(ranked)
                kept == Recommended(k)
            IN  /\ Len(kept) <= 5
                /\ Len(kept) = (IF n < 5 THEN n ELSE 5)
                /\ n = Cardinality({r \in recipes : InBand(r, k)})
                /\ \A i \in 1..Len(kept) : kept[i] = ranked[i]
                /\ \A i \in 1..n : \A j \in 1..Len(kept) :
                      i > Len(kept) => ranked[i].pantry_score <= kept[j].pantry_score

\* a slot of more than 5 candidates of different scores with 5 recommendations
C8_Witness ==
    /\ IsPlan
    /\ \E k \in Slots :
          /\ Cardinality({r \in recipes : InBand(r, k)}) > 5
          /\ Len(Recommended(k)) = 5
          /\ Recommended(k)[1].pantry_score > Recommended(k)[5].pantry_score

\* the macro `field` of the first recommendation of slot k, in thousandths of g
TopMacro(k, field) ==
    IF Recommended(k) = << >> THEN 0 ELSE Recommended(k)[1][field]

TopSum(field) ==
    TopMacro(1, field) + TopMacro(2, field) + TopMacro(3, field) + TopMacro(4, field)

Macros == {"protein_g", "carbs_g", "fat_g"}

\* C9 as stated: total_macros is the sum over the four slots of the macros of the
\* top-ranked recipe of the slot, an empty slot adding 0.
C9_ExactSum ==
    IsPlan => \A f \in Macros : 10 * response.plan.total_macros[f] = TopSum(f)

\* C9: total_macros is, for each of protein_g, carbs_g and fat_g, the sum over
\* the four slots of the value of the slot's top-ranked recipe, rounded to 2
\* decimals; an empty slot adds 0 and lower-ranked recipes add nothing.
C9_RoundedSum ==
    IsPlan =>
        \A f \in Macros :
            2 * Abs(10 * response.plan.total_macros[f] - TopSum(f)) <= 10

\* a plan with two filled slots, one of them with a second recommendation of
\* other macros, and a protein sum that has a third decimal
C9_Witness ==
    /\ IsPlan
    /\ \E k, l \in Slots :
          /\ k # l
          /\ Len(Recommended(k)) >= 2
          /\ Len(Recommended(l)) >= 1
          /\ Recommended(k)[1].protein_g # Recommended(k)[2].protein_g
    /\ TopSum("protein_g") % 10 # 0

\* C10: the shares are 25%, 35%, 30% and 10% and sum to 100%; the target of a
\* slot is the daily target times its share and the four targets sum to the
\* daily target; for 2000 kcal the lunch target is 700 kcal; the target_kcal of
\* a slot of a plan is that target rounded to 2 decimals.
C10_MealShares ==
    /\ MEAL_DISTRIBUTION =
          [breakfast |-> 25, lunch |-> 35, dinner |-> 30, snack |-> 10]
    /\ MEAL_DISTRIBUTION.breakfast + MEAL_DISTRIBUTION.lunch
          + MEAL_DISTRIBUTION.dinner + MEAL_DISTRIBUTION.snack = 100
    /\ get_meal_calorie_targets(200000).lunch = 700 * 10000
    /\ \A u \in users, d \in AnyDeficits :
          LET total == calculate_target_calories(u, d)
              targets == get_meal_calorie_targets(total)
          IN  /\ targets.breakfast = 25 * total
              /\ targets.lunch = 35 * total
              /\ targets.dinner = 30 * total
              /\ targets.snack = 10 * total
              /\ targets.breakfast + targets.lunch + targets.dinner + targets.snack
                    = 100 * total
    /\ IsPlan =>
          \A k \in Slots :
              /\ response.plan.meals[k].meal_type = MealTypes[k]
              /\ 2 * Abs(100 * response.plan.meals[k].target_kcal
                           - response.plan.target_daily_kcal
                               * MEAL_DISTRIBUTION[MealTypes[k]]) <= 100

\* a plan of 2000 kcal whose lunch target is 700 kcal
C10_Witness ==
    /\ IsPlan
    /\ response.plan.target_daily_kcal = 200000
    /\ response.plan.meals[2].meal_type = "lunch"
    /\ response.plan.meals[2].target_kcal = 70000

\* a user with this id is stored
UserStored(user_id) == \E u \in users : u.id = user_id

\* the request for a meal plan passes authentication and the validation of its
\* body
AcceptedPlanRequest(sub, req) ==
    /\ get_current_user(sub).ok
    /\ req.deficit >= -1000 /\ req.deficit <= 500

C11_EngineRaises ==
    \A user_id \in UserIds, deficit \in PlanDeficits :
        LET result == engine_generate_meal_plan(user_id, deficit)
        IN  /\ result.raised = "ValueError" <=> ~UserStored(user_id)
            /\ ~UserStored(user_id) => "plan" \notin DOMAIN result

C11_NotFound ==
    response'.op = "generate_meal_plan" =>
        \A sub \in Emails, req \in MealPlanRequests :
            (/\ AcceptedPlanRequest(sub, req)
             /\ ~UserStored(req.user_id)
             /\ generate_meal_plan(sub, req))
                => /\ response'.status = 404
                   /\ "plan" \notin DOMAIN response'

\* C11: generate_meal_plan for a user_id that is not stored raises the
\* user-not-found error and returns no plan, and the endpoint answers 404.
C11_UnknownUser == []C11_EngineRaises /\ [][C11_NotFound]_vars

\* the 404 answer to a request for the plan of a user that is not stored
C11_Witness ==
    /\ response.op = "generate_meal_plan"
    /\ response.status = 404
    /\ users # {}
    /\ \E user_id \in UserIds : ~UserStored(user_id)

C12_Frame ==
    (response'.op = "generate_meal_plan" /\ response'.status \in {200, 404})
        => /\ users' = users
           /\ recipes' = recipes
           /\ recipe_ingredients' = recipe_ingredients
           /\ pantry' = pantry
           /\ ingredients' = ingredients
           /\ diet_plans' = diet_plans

\* C12: a generate_meal_plan request that returns a plan or fails with
\* user-not-found leaves users, recipes, recipe_ingredients, pantry and
\* diet_plans as they were: nothing is written and no plan is stored.
C12_ReadOnly == [][C12_Frame]_vars

\* a plan returned over a stored catalog and pantry, no diet plan stored
C12_Witness ==
    /\ IsPlan
    /\ recipes # {}
    /\ recipe_ingredients # {}
    /\ pantry # EmptyBag
    /\ diet_plans = {}
    /\ friendships = {}
    /\ messages = {}
    /\ inflight = << >>
    /\ tokens = {}
    /\ \E k \in Slots : Recommended(k) # << >>

C13_EmptySlot ==
    IsPlan =>
        \A k \in Slots :
            (~ \E r \in recipes : InBand(r, k))
                => /\ Recommended(k) = << >>
                   /\ 2 * Abs(100 * response.plan.meals[k].target_kcal - SlotTarget(k))
                         <= 100

C13_Succeeds ==
    \A u \in users, deficit \in PlanDeficits :
        LET result == engine_generate_meal_plan(u.id, deficit)
        IN  /\ result.raised = ""
            /\ Len(result.plan.meals) = 4
            /\ \A k \in Slots :
                  (~ \E r \in recipes : r.meal_type = MealTypes[k])
                      => result.plan.meals[k].recommended_recipes = << >>

\* C13: generate_meal_plan for a stored user returns a plan whatever the
\* catalog holds; a slot that no recipe matches is returned with its target_kcal
\* and an empty recommended_recipes list.
C13_NoCandidates == C13_EmptySlot /\ C13_Succeeds

\* a plan with a slot without recommendations next to a slot that has some
C13_Witness ==
    /\ IsPlan
    /\ \E k, l \in Slots :
          /\ Recommended(k) = << >>
          /\ response.plan.meals[k].target_kcal > 0
          /\ Recommended(l) # << >>

\* C14: every plan has exactly four slots, breakfast, lunch, dinner and snack,
\* and every recipe recommended in a slot has the meal_type of the slot.
C14_FourSlots ==
    IsPlan =>
        /\ Len(response.plan.meals) = 4
        /\ {response.plan.meals[k].meal_type : k \in 1..Len(response.plan.meals)}
              = {"breakfast", "lunch", "dinner", "snack"}
        /\ \A k \in 1..Len(response.plan.meals) :
              \A x \in SeqRange(response.plan.meals[k].recommended_recipes) :
                  /\ x.meal_type = response.plan.meals[k].meal_type
                  /\ \E r \in recipes : r.id = x.id /\ r.meal_type = x.meal_type

\* a plan that recommends a lunch and a dinner whose kcal is in the lunch band
C14_Witness ==
    /\ IsPlan
    /\ \E k, l \in Slots :
          /\ k # l
          /\ Recommended(k) # << >>
          /\ Recommended(l) # << >>
          /\ \E x \in SeqRange(Recommended(l)) :
                /\ 9 * SlotTarget(k) <= x.kcal * 1000
                /\ x.kcal * 1000 <= 11 * SlotTarget(k)

----------------------------------------------------------------------------
(* Health metrics *)

\* every spelling of the gender a user row is tried with
WithGender(u, g) == [u EXCEPT !.gender = g]

MissingHipMessage == "Hip measurement is required for female body fat calculation"

\* the number whose log10 the body-fat formula of the user takes
LogArgument(u) ==
    IF Lower(u.gender) = "male" THEN u.waist_cm - u.neck_cm
    ELSE u.waist_cm + u.hip_cm[1] - u.neck_cm

\* C15: for a user whose gender, compared without case, is not "male", the
\* body-fat calculation fails with the missing-hip error when hip_cm is None
\* and no value is produced; when hip_cm is stored (and the measurements are in
\* the domain of the formula) it produces a value and raises nothing.
C15_HipRequired ==
    \A u \in users, g \in GenderSpellings :
        LET v == WithGender(u, g)
            body_fat == calculate_body_fat(v)
        IN  Lower(g) # "male" =>
              /\ v.hip_cm = None =>
                    /\ body_fat.raised = "ValueError"
                    /\ body_fat.message = MissingHipMessage
                    /\ "value" \notin DOMAIN body_fat
              /\ (v.hip_cm # None /\ LogArgument(v) > 0) =>
                    /\ body_fat.raised = ""
                    /\ body_fat.value.formula = "female"

\* a woman without hip asked for her metrics and was told the hip is missing
C15_Witness ==
    /\ response.op = "get_current_user_health"
    /\ response.status = 400
    /\ response.detail = MissingHipMessage
    /\ \E u \in users : u.gender = "female" /\ u.hip_cm = None

\* the measurements of the user leave the body-fat formula a logarithm of a
\* number that is not positive
OutOfDomain(u) ==
    /\ Lower(u.gender) # "male" => u.hip_cm # None
    /\ LogArgument(u) <= 0

\* C16: when the measurements make the argument of the logarithm zero or
\* negative, the body-fat calculation fails with an error of its own for the
\* invalid measurements, and the exception of the math library does not reach
\* the caller.
C16_DomainError ==
    \A u \in users :
        OutOfDomain(u) =>
            /\ calculate_body_fat(u).raised # ""
            /\ calculate_body_fat(u).origin # "math.log10"

\* the health metrics of the stored user cannot be computed
MetricsFail(u) == get_health_metrics(u).raised # ""

\* the response of an operation that reports an error to its caller
IsError(r) == r.status >= 400

C17_Step ==
    \A sub \in Emails :
        get_current_user(sub).ok =>
            LET current_user == get_current_user(sub).user
            IN  /\ (MetricsFail(current_user) /\ get_current_user_health(sub))
                       => IsError(response')
                /\ \A u \in users :
                       (MetricsFail(u) /\ get_user_health_metrics(sub, u.id))
                           => IsError(response')
                /\ \A u \in users :
                       (MetricsFail(u) /\ chat_with_ai(sub, Some(u.id)))
                           => IsError(response')
                /\ \A outcome \in AIOutcomes :
                       (MetricsFail(current_user) /\ suggest_recipes(sub, outcome))
                           => IsError(response')
                /\ \A duration \in PlanDurations, outcome \in PlanOutcomes :
                       (/\ MetricsFail(current_user)
                        /\ generate_diet_plan_endpoint(sub, duration, outcome))
                           => IsError(response')

\* C17: in every operation that computes the health metrics of a user (the two
\* health endpoints, the AI chat, the AI recipe suggestion, the AI plan
\* generation) a failure of the metrics (missing hip, logarithm of a number
\* that is not positive) is answered with an error, never with a response built
\* on default values or without the metrics.
C17_AlwaysReported == [][C17_Step]_vars

C18_Propagates ==
    \A u \in users, g \in GenderSpellings :
        LET v == WithGender(u, g)
        IN  calculate_body_fat(v).raised # "" =>
              /\ get_health_metrics(v) = calculate_body_fat(v)
              /\ "metrics" \notin DOMAIN get_health_metrics(v)

\* the 400 answer that carries the error of the body-fat calculation of u
BadRequestOf(r, u) ==
    /\ r.status = 400
    /\ r.detail = calculate_body_fat(u).message
    /\ "metrics" \notin DOMAIN r

C18_Endpoints ==
    response'.op \in {"get_current_user_health", "get_user_health_metrics"} =>
        \A sub \in Emails :
            get_current_user(sub).ok =>
                /\ (/\ calculate_body_fat(get_current_user(sub).user).raised # ""
                    /\ get_current_user_health(sub))
                       => BadRequestOf(response', get_current_user(sub).user)
                /\ \A u \in users :
                       (/\ calculate_body_fat(u).raised # ""
                        /\ get_user_health_metrics(sub, u.id))
                           => BadRequestOf(response', u)

\* C18: get_health_metrics does not catch a failure of the body-fat
\* calculation: whenever calculate_body_fat fails for a profile,
\* get_health_metrics fails with the same error and returns no metrics at all,
\* and GET /users/me/health and GET /users/{id}/health answer 400 with the
\* message of that error.
C18_NoPartialMetrics == []C18_Propagates /\ [][C18_Endpoints]_vars

\* the metrics of a stored man whose waist is not above his neck were asked for
C18_Witness ==
    /\ response.op = "get_user_health_metrics"
    /\ response.status = 400
    /\ response.detail = "math domain error"
    /\ \E u \in users : u.gender = "male" /\ u.waist_cm <= u.neck_cm

\* 10 * weight + 6.25 * height - 5 * age + s, in 1/10000 kcal
MifflinStJeor(u, s) ==
    1000 * u.weight_kg + 625 * u.height_cm - 50000 * u.age + 10000 * s

\* s of the formula: +5 for "male" in any case, -161 for every other gender
GenderTerm(g) == IF g \in {"male", "Male", "MALE"} THEN 5 ELSE -161

\* the profile of the example: 70 kg, 175 cm, 30 years
ExampleProfile(gender) ==
    MeasuredUser(gender, "sedentary", 17500, 8000, 3500, Some(9500))

\* C19 as stated: bmr is the value of the formula itself, and the example gives
\* 1073.75 for the man and 907.75 for the woman
C19_ExactBmr ==
    /\ \A u \in users, g \in GenderSpellings :
           100 * calculate_bmr(WithGender(u, g)) = MifflinStJeor(u, GenderTerm(g))
    /\ \A u \in users, g \in GenderSpellings \ {"male", "Male"} :
           calculate_bmr(WithGender(u, "male")) - calculate_bmr(WithGender(u, g)) = 16600
    /\ calculate_bmr(ExampleProfile("male")) = 107375
    /\ calculate_bmr(ExampleProfile("female")) = 90775

\* C19: bmr is 10*weight + 6.25*height - 5*age + s rounded to 2 decimals, with
\* s = +5 when the gender is "male" in any case and s = -161 for every other
\* gender; for the same weight, height and age the result for a man exceeds
\* the result for anyone else by exactly 166; weight 70, height 175, age 30
\* gives 1648.75 for a man and 1482.75 for a woman.
C19_RoundedBmr ==
    /\ \A u \in users, g \in GenderSpellings :
           2 * Abs(100 * calculate_bmr(WithGender(u, g))
                     - MifflinStJeor(u, GenderTerm(g))) <= 100
    /\ \A u \in users, g \in GenderSpellings \ {"male", "Male"} :
           calculate_bmr(WithGender(u, "male")) - calculate_bmr(WithGender(u, g)) = 16600
    /\ calculate_bmr(ExampleProfile("male")) = 164875
    /\ calculate_bmr(ExampleProfile("female")) = 148275

\* the metrics of a woman were returned whose bmr is a rounded value
C19_Witness ==
    /\ response.op = "get_current_user_health"
    /\ response.status = 200
    /\ \E u \in users :
           /\ u.gender = "female"
           /\ MifflinStJeor(u, -161) % 100 # 0
           /\ response.metrics.bmr = calculate_bmr(u)

\* the table of the activity levels in its order, multipliers in thousandths
ActivityOrder == <<"sedentary", "light", "moderate", "very", "athlete">>

TableMultiplier == <<1200, 1375, 1550, 1725, 1900>>

\* the multiplier a level stands for: its entry of the table, 1.20 without one
MultiplierOf(level) ==
    IF \E k \in 1..5 : ActivityOrder[k] = level
    THEN TableMultiplier[CHOOSE k \in 1..5 : ActivityOrder[k] = level]
    ELSE 1200

\* the levels a user row is tried with: the table and two levels outside of it
ActivityInputs == SeqRange(ActivityOrder) \cup {"extreme", "SEDENTARY"}

WithActivity(u, level) == [u EXCEPT !.activity_level = level]

C20_Monotone ==
    \A u \in users, k \in 1..4 :
        calculate_tdee(WithActivity(u, ActivityOrder[k]))
            <= calculate_tdee(WithActivity(u, ActivityOrder[k + 1]))

\* C20 as stated: tdee is the product of bmr and the multiplier itself
C20_ExactTdee ==
    /\ \A u \in users, level \in ActivityInputs :
           1000 * calculate_tdee(WithActivity(u, level))
               = calculate_bmr(u) * MultiplierOf(level)
    /\ C20_Monotone

\* C20: tdee equals bmr times the activity multiplier, rounded to 2 decimals,
\* with the table sedentary 1.20, light 1.375, moderate 1.55, very 1.725,
\* athlete 1.90; an activity level outside the table uses 1.20 and does not
\* fail; tdee is non-decreasing along the order sedentary, light, moderate,
\* very, athlete for a fixed positive bmr.
C20_RoundedTdee ==
    /\ \A u \in users, level \in ActivityInputs :
           2 * Abs(1000 * calculate_tdee(WithActivity(u, level))
                     - calculate_bmr(u) * MultiplierOf(level)) <= 1000
    /\ \A u \in users : calculate_bmr(u) > 0
    /\ C20_Monotone

\* the metrics of a lightly active user were returned, and the tdee among them
\* is a rounded product
C20_Witness ==
    /\ response.op = "get_user_health_metrics"
    /\ response.status = 200
    /\ \E u \in users :
           /\ u.activity_level = "light"
           /\ (calculate_bmr(u) * 1375) % 1000 # 0
           /\ response.metrics.tdee = calculate_tdee(u)

\* whole centimetres and kilograms a user row is tried with
BmiHeights == {150, 160, 170, 175, 183, 200}

\* (no pair of them makes the quotient a decimal tie, where round(x, 2) follows
\* the binary representation of x)
BmiWeights == {45, 70, 85, 110}

WithBody(u, height, weight) ==
    [u EXCEPT !.height_cm = 100 * height, !.weight_kg = 100 * weight]

\* C21: for a positive height and weight, bmi is weight_kg / (height_cm/100)^2
\* rounded to 2 decimals (it is within half a hundredth of the quotient);
\* height 170 cm and weight 70 kg give 24.22; the health endpoints return it.
C21_Bmi ==
    /\ \A u \in users, height \in BmiHeights, weight \in BmiWeights :
           2 * Abs(calculate_bmi(WithBody(u, height, weight)) * height * height
                     - weight * 1000000) <= height * height
    /\ \A u \in users : calculate_bmi(WithBody(u, 170, 70)) = 2422
    /\ (response.op = "get_current_user_health" /\ response.status = 200) =>
           \E u \in users : response.metrics.bmi = calculate_bmi(u)

\* the metrics of a user of 175 cm and 70 kg were returned: 22.857... is 22.86
C21_Witness ==
    /\ response.op = "get_current_user_health"
    /\ response.status = 200
    /\ response.metrics.bmi = 2286
    /\ \E u \in users : u.height_cm = 17500 /\ u.weight_kg = 7000

----------------------------------------------------------------------------
(* Requests that overlap *)

PlanCalls == {call \in Calls : call.op = "generate_meal_plan"}

\* calculate_pantry_score of a recipe for a pantry holding the ingredient ids
PantryScoreIn(recipe, ingredient_ids) ==
    LET needed == {ri \in recipe_ingredients : ri.recipe_id = recipe.id}
    IN  IF needed = {} THEN 10000
        ELSE RoundHalfEven(
                 Cardinality({ri \in needed : ri.ingredient_id \in ingredient_ids})
                     * 10000,
                 Cardinality(needed))

\* the plan of a user whose pantry holds the ingredient ids
PlanIn(user, deficit, ingredient_ids) ==
    LET candidates == PlanCandidates(user, deficit)
    IN  MealPlanWith(user, deficit,
            [k \in 1..Len(candidates) |-> PantryScoreIn(candidates[k], ingredient_ids)])

\* the plan the engine computes for a stored user is the plan of the user's
\* own profile and own pantry rows
C22_OwnDataOnly ==
    \A u \in users :
        /\ \A r \in recipes :
               calculate_pantry_score(r, u.id)
                   = PantryScoreIn(r, PantryIngredientIds(u.id))
        /\ engine_generate_meal_plan(u.id, -250).plan
               = PlanIn(u, -250, PantryIngredientIds(u.id))

\* every score of a call in flight is the score for the own pantry rows the
\* call read
C22_OwnReadsOnly ==
    \A call \in PlanCalls :
        LET candidates == PlanCandidates(call.user, call.deficit)
        IN  /\ Len(call.reads) = Len(call.scores)
            /\ \A k \in 1..Len(call.scores) :
                   call.scores[k] = PantryScoreIn(candidates[k], call.reads[k])

\* and the plan returned for pantry rows that were the same at every read is
\* the plan of the user for those rows
C22_Returned ==
    \A call \in PlanCalls :
        (/\ return_meal_plan(call)
         /\ \A k \in 1..Len(call.reads) : call.reads[k] = call.pantry_at_start)
            => response'.plan = PlanIn(call.user, call.deficit, call.pantry_at_start)

\* C22: the plan returned for user A depends only on A's profile, A's pantry
\* rows, the deficit and the catalog: whatever the rows of another user B are,
\* and whether or not they change while the plan for A is computed, the plan
\* is the one determined by A's own data.
C22_Independent ==
    [](C22_OwnDataOnly /\ C22_OwnReadsOnly) /\ [][C22_Returned]_vars

\* user 2 put an ingredient into their pantry that user 1 does not have, while
\* a plan for user 1, some of whose recipes are scored, was in flight
C22_Witness ==
    /\ response.op = "add_to_pantry"
    /\ response.status = 201
    /\ response.user_id = 2
    /\ PantryIngredientIds(1) = {}
    /\ \E call \in PlanCalls :
           /\ call.user.id = 1
           /\ Len(call.scores) \in 1..2

\* C23: a call of generate_meal_plan works on one read view: all the
\* pantry_scores of the plan are computed against one and the same pantry of
\* the user, never some against the pantry before and others against the
\* pantry after a request that adds or removes a pantry row of the user while
\* the plan is computed.
C23_OneReadView ==
    \A call \in PlanCalls :
        \A k, j \in 1..Len(call.reads) : call.reads[k] = call.reads[j]

AddCalls == {call \in Calls : call.op = "add_to_pantry"}

\* the quantity the rows of a pair hold together
RECURSIVE QuantityUpTo(_, _, _, _)
QuantityUpTo(bag, user_id, ingredient_id, q) ==
    IF q = 0 THEN 0
    ELSE q * CopiesIn([user_id |-> user_id, ingredient_id |-> ingredient_id,
                       quantity |-> q], bag)
           + QuantityUpTo(bag, user_id, ingredient_id, q - 1)

PairQuantity(bag, user_id, ingredient_id) ==
    QuantityUpTo(bag, user_id, ingredient_id, 2 * MaxQuantity)

C24_NoDuplicate ==
    \A user_id \in {1, 2} : RowCount(pantry, user_id, 1) <= 1

C24_NoLostIncrement ==
    \A call \in AddCalls :
        (commit_add_to_pantry(call) /\ response'.status = 201) =>
            PairQuantity(pantry', call.user_id, call.item.ingredient_id)
                = PairQuantity(pantry, call.user_id, call.item.ingredient_id)
                    + call.item.quantity

\* C24: when add_to_pantry requests for one (user, ingredient) pair interleave,
\* each running its query of the existing row before the other commits, the
\* pantry still holds a single row of the pair, and every accepted request
\* raises the quantity of the pair by the quantity it adds: no duplicate row
\* and no lost increment.
C24_SingleRowSum == []C24_NoDuplicate /\ [][C24_NoLostIncrement]_vars

----------------------------------------------------------------------------
(* Stored diet plans *)

\* the largest id of a stored plan the plan tables are drawn with
MaxPlans == 3

\* the tables of stored plans StorePlan is applied to: plans of two users,
\* active or archived
PlanTables ==
    UNION { { {[id |-> i, user_id |-> f[i].user_id, duration |-> "daily",
                status |-> f[i].status] : i \in ids} :
                f \in [ids -> [user_id : {1, 2}, status : {"active", "archived"}]] } :
            ids \in SUBSET (1..MaxPlans) }

ActivePlans(plans, user_id) ==
    {p \in plans : p.user_id = user_id /\ p.status = "active"}

\* C25: a POST /plans/generate of a user for which the AI service delivers a
\* plan with days succeeds, and right after it the only active plan of the
\* user is the newly created one and every plan that was active before is
\* archived; right after DELETE /plans/current the user has no active plan; so
\* at most one plan of a user is active.
C25_Generate ==
    \A sub \in Emails, duration \in PlanDurations :
        (get_current_user(sub).ok /\ generate_diet_plan_endpoint(sub, duration, "plan"))
            => LET user_id == get_current_user(sub).user.id
               IN  /\ response'.status = 200
                   /\ \E p \in diet_plans' \ diet_plans :
                          ActivePlans(diet_plans', user_id) = {p}
                   /\ \A p \in ActivePlans(diet_plans, user_id) :
                          [p EXCEPT !.status = "archived"] \in diet_plans'

C25_Delete ==
    \A sub \in Emails :
        (get_current_user(sub).ok /\ delete_active_plan(sub))
            => ActivePlans(diet_plans', get_current_user(sub).user.id) = {}

C25_OneActive ==
    \A user_id \in UserIds : Cardinality(ActivePlans(diet_plans, user_id)) <= 1

C26_PlansKept ==
    \A plans \in PlanTables, user_id \in {1, 2}, duration \in PlanDurations :
        /\ \A call \in {"TypeError", "error", "no_days"} :
               /\ StorePlan(plans, user_id, duration, call).status = 500
               /\ StorePlan(plans, user_id, duration, call).plans = plans
        /\ \A outcome \in {"error", "no_days"} :
               CallOfGenerateDietPlan(outcome) # "plan"

C26_Step ==
    (response'.op = "generate_diet_plan_endpoint" /\ response'.status # 200)
        => /\ diet_plans' = diet_plans
           /\ response'.status \in {401, 403, 500}

----------------------------------------------------------------------------
(* Deactivated accounts *)

\* the stored user a token names
TokenUser(t) == First({u \in users : u.email = t.sub})

Deactivated(t) == TokenUser(t) # None /\ ~TokenUser(t)[1].is_active

Refused == [ok |-> FALSE, status |-> 403]

\* the dependency on every issued token: refused while the account is
\* deactivated, whenever the token was issued; accepted while it is active
C27_Dependency ==
    \A t \in tokens :
        TokenUser(t) # None =>
            IF TokenUser(t)[1].is_active
            THEN get_current_user(t.sub) = [ok |-> TRUE, user |-> TokenUser(t)[1]]
            ELSE get_current_user(t.sub) = Refused

\* the requests that carry an issued token: 403 and nothing written while the
\* account is deactivated, no 401 or 403 of the dependency while it is active
C27_Requests ==
    \A t \in tokens :
        /\ Deactivated(t) =>
              /\ get_current_user_health(t.sub) => response'.status = 403
              /\ get_current_plan(t.sub) => response'.status = 403
              /\ \A user_id \in AccountIds :
                    /\ toggle_user_active(t.sub, user_id) =>
                          response'.status = 403 /\ UNCHANGED db
                    /\ toggle_user_admin(t.sub, user_id) =>
                          response'.status = 403 /\ UNCHANGED db
        /\ (TokenUser(t) # None /\ ~Deactivated(t)) =>
              /\ get_current_user_health(t.sub) => response'.status \in {200, 400}
              /\ get_current_plan(t.sub) => response'.status \in {200, 404}

\* C27: while a user's is_active flag is false, every request authenticating
\* as that user through get_current_user is answered 403, whether its token
\* was issued before the deactivation or by a login after it; once the flag
\* is true again the same tokens are accepted.
C27_Deactivated == []C27_Dependency /\ [][C27_Requests]_vars

\* a deactivated member holding a token from before the deactivation and one
\* from a login after it has just been refused
C27_Witness ==
    /\ \E u \in users : u.email = "a@x.io" /\ ~u.is_active
    /\ {[sub |-> "a@x.io", active_at_issue |-> b] : b \in BOOLEAN} \subseteq tokens
    /\ response = [op |-> "get_current_user_health", status |-> 403]

----------------------------------------------------------------------------
(* Ownership of a user's row and pantry *)

\* the stored user a request authenticates as
Caller(sub) == First({u \in users : u.email = sub})

\* the caller is the target user or a superuser
OwnerOrAdmin(sub, user_id) ==
    /\ Caller(sub) # None
    /\ Caller(sub)[1].id = user_id \/ Caller(sub)[1].is_superuser

\* one of the five requests on the target user_id; reached tells whether the
\* body passed the schema, so that the handler runs
OwnerRequest(sub, user_id, reached) ==
    \/ /\ response'.op = "update_user"
       /\ \E d \in OwnerUpdates :
             /\ reached = UserUpdateValid(d)
             /\ update_user(sub, user_id, d)
    \/ /\ response'.op = "delete_user"
       /\ reached
       /\ delete_user(sub, user_id)
    \/ /\ response'.op = "add_to_pantry"
       /\ reached
       /\ add_to_pantry(sub, user_id, [ingredient_id |-> 1, quantity |-> 1])
    \/ /\ response'.op = "update_pantry_item"
       /\ reached
       /\ update_pantry_item(sub, user_id, 1, 2)
    \/ /\ response'.op = "remove_from_pantry"
       /\ reached
       /\ remove_from_pantry(sub, user_id, 1)

\* a step that writes a table is no request of another caller, and a request
\* of another caller that reaches the handler is answered 403
C28_Step ==
    \A sub \in AccountEmails, user_id \in AccountIds :
        IF OwnerOrAdmin(sub, user_id)
        THEN TRUE
        ELSE /\ db' # db =>
                   \A reached \in BOOLEAN : ~OwnerRequest(sub, user_id, reached)
             /\ (Caller(sub) # None /\ response'.status # 403) =>
                   ~OwnerRequest(sub, user_id, TRUE)

\* C28: update_user, delete_user, add_to_pantry, update_pantry_item and
\* remove_from_pantry write the store only when the caller's id is the target
\* user_id or the caller is a superuser; the handler answers any other caller
\* 403 and leaves every table as it was.
C28_OwnerOrAdminOnly == [][C28_Step]_vars

\* a member was refused the removal of a row of another member's pantry
C28_Witness ==
    /\ response = [op |-> "remove_from_pantry", status |-> 403]
    /\ \E row \in BagToSet(pantry) : row.user_id = MemberB.id
    /\ BagToSet(pantry) = {row \in BagToSet(pantry) : row.user_id = MemberB.id}
    /\ MemberA \in users

----------------------------------------------------------------------------
(* Creating a recipe *)

\* C29: create_recipe is all-or-nothing: a request that fails with 400
\* because a listed ingredient id is unknown leaves the recipes and the
\* recipe_ingredients as they were before it, so no recipe without its
\* ingredients becomes visible to generate_meal_plan.
C29_AllOrNothing ==
    [][\A sub \in Emails, recipe \in RecipeCreateInputs :
          (response'.status = 400 /\ create_recipe(sub, recipe)) =>
              UNCHANGED <<recipes, recipe_ingredients>>]_vars

----------------------------------------------------------------------------
(* Direct messages between friends *)

\* a friendship row of status accepted joins the two users, in either direction
Friends(a, b) ==
    \E f \in friendships :
        /\ f.status = "accepted"
        /\ \/ f.sender_id = a /\ f.receiver_id = b
           \/ f.sender_id = b /\ f.receiver_id = a

\* a send_message of a sender who is no superuser: a message is stored only
\* between friends, and towards a stored user who is no friend (no row, a
\* pending row, a removed row) the answer is 403 with the messages unchanged
C30_Step ==
    \A sub \in AccountEmails, message \in MessageInputs :
        (response'.op = "send_message" /\ Caller(sub) # None
            /\ ~Caller(sub)[1].is_superuser /\ send_message(sub, message)) =>
            LET sender == Caller(sub)[1].id
            IN  /\ messages' # messages => Friends(sender, message.receiver_id)
                /\ (/\ MessageCreateValid(message)
                    /\ \E u \in users : u.id = message.receiver_id
                    /\ message.receiver_id # sender
                    /\ ~Friends(sender, message.receiver_id)) =>
                       (response'.status = 403 /\ UNCHANGED messages)

\* the messages table changes by send_message only
C30_OnlyBySend ==
    messages' # messages => response'.op = "send_message"

\* C30: a direct message of a sender who is no superuser is stored only if,
\* when it is sent, a friendship of status accepted exists between sender and
\* receiver in either direction; with no friendship, with a pending request,
\* or after unfriend, send_message answers 403 and stores no message.
C30_FriendsOnly == [][C30_Step /\ C30_OnlyBySend]_vars

\* a member was refused a message; the request between the two members is
\* still pending and no message is stored
C30_Witness ==
    /\ response = [op |-> "send_message", status |-> 403]
    /\ \E f \in friendships : f.status = "pending"
    /\ messages = {}

====
